---- MODULE Spec2Model ----
(***************************************************************************)
(* A model of the kanban-mcp server: the HTTP client core with its cached  *)
(* bearer token, the batch task creation, the board creation with its      *)
(* default lists and labels, the create-card-with-tasks helper and the     *)
(* card stopwatch operations.                                              *)
(*                                                                         *)
(* The upstream Planka service is the environment: the outcome of every    *)
(* upstream call is chosen nondeterministically from a small set.          *)
(* JavaScript arrays are modelled as functions with domain 0..n-1, so an   *)
(* index of the model is the index of the code.                            *)
(***************************************************************************)
EXTENDS Integers, Sequences, FiniteSets, TLC

(***************************************************************************)
(* Bounds of the model.                                                    *)
(***************************************************************************)
MaxTasks == 3
MaxCardTasks == 2
MaxMembers == 2
MaxTicks == 6
TickMs == 500
MaxRequests == 2
MaxWorkflowTasks == 2
MaxSummaryCards == 2
MaxSummaryTasks == 3
MaxScanBoards == 2

(***************************************************************************)
(* Values shared by the sections.                                          *)
(***************************************************************************)
NULL == "null"
UNDEFINED == "undefined"

\* The outcomes of one upstream call as an operation sees them: a 2xx
\* response of the expected shape, a 2xx response the schema rejects, or a
\* failure thrown by plankaRequest (network failure or non-2xx status).
UpstreamOutcomes == {"ok", "malformed", "reject"}

\* JavaScript arrays as functions on 0..n-1.
EmptyArray == << >>

ArrayLength(a) ==
    IF DOMAIN a = {} THEN 0
    ELSE (CHOOSE m \in DOMAIN a : \A k \in DOMAIN a : k <= m) + 1

ArrayPush(a, x) == [k \in DOMAIN a \cup {ArrayLength(a)} |->
                        IF k \in DOMAIN a THEN a[k] ELSE x]

ArraySet(a, i, x) == [k \in DOMAIN a \cup {i} |-> IF k = i THEN x ELSE a[k]]

VARIABLES
    \* ---- batchCreateTasks ----
    bVariant,     \* "idle", "sequential" or "parallel"
    bTasks,       \* options.tasks
    bOutcome,     \* the upstream's answer to the POST of each task
    bI,           \* the loop variable i of the sequential variant
    bPending,     \* the task promises of the parallel variant not yet settled
    bResults,     \* results
    bErrors,      \* errors
    bCalls,       \* the createTask calls issued so far, in order
    bReturn       \* pending, then the value returned or the error thrown

VARIABLES
    \* ---- admin identity and createBoard ----
    env,          \* process.env: PLANKA_ADMIN_ID, _EMAIL and _USERNAME
    adminUserId,  \* the cached admin user ID of setup.ts
    cbPc,         \* where createBoard is: idle, post, admin, member, lists,
                  \* labels, done
    cbOptions,    \* the options of the running createBoard
    cbBoard,      \* the board parsed from the response of the POST
    cbAdmin,      \* what getAdminUserId returned to createBoard
    cbIndex,      \* the index of the next default list or label
    cbCalls,      \* the upstream calls createBoard has issued, in order
    cbReturn      \* pending, then the board returned or the error thrown

boardVars == <<env, adminUserId, cbPc, cbOptions, cbBoard, cbAdmin, cbIndex,
               cbCalls, cbReturn>>

VARIABLES
    \* ---- createCardWithTasks ----
    ccPc,         \* where createCardWithTasks is: idle, card, members, tasks,
                  \* taskComment, comment, return, done
    ccParams,     \* params
    ccCard,       \* card
    ccTasks,      \* createdTasks
    ccComment,    \* createdGlobalCardComment
    ccIndex,      \* the index of the next member ID or task
    ccCalls,      \* the operations called so far, in order, with outcomes
    ccReturn      \* pending, then the value returned or the error thrown

cardVars == <<ccPc, ccParams, ccCard, ccTasks, ccComment, ccIndex, ccCalls,
              ccReturn>>

VARIABLES
    \* ---- card stopwatch ----
    swNow,        \* the clock, in milliseconds
    swStored,     \* the stopwatch of the card as the upstream stores it
    swOp,         \* the running operation: none, start, stop, get, reset
    swPc,         \* where it is: idle, getCard, patch, done
    swCard,       \* the stopwatch of the card read by getCard
    swBody,       \* the stopwatch of the body of the PATCH
    swResult,     \* pending, then the value returned or the error thrown
    swPrev        \* the operation completed before the running one

stopwatchVars == <<swNow, swStored, swOp, swPc, swCard, swBody, swResult,
                   swPrev>>

VARIABLES
    \* ---- the HTTP client core ----
    agentCredentials, \* whether PLANKA_AGENT_EMAIL and _PASSWORD are set
    agentToken,   \* the cached bearer token
    req,          \* the invocations of plankaRequest, each with its pc
                  \* (idle, login, authed, sent, done), its options and
                  \* its local token
    logins,       \* the number of calls of POST /api/access-tokens issued
    lastLogin     \* the item of the login response that came last

clientVars == <<agentCredentials, agentToken, req, logins, lastLogin>>

VARIABLES
    \* ---- a call of createPlankaError ----
    eStatus,      \* the status passed
    eResponse,    \* the payload passed
    eError        \* what the call produced

errorVars == <<eStatus, eResponse, eError>>

VARIABLES
    \* ---- a caller of getAdminUserId ----
    aByEmail,     \* the upstream's answer to a lookup by email
    aByUsername,  \* the upstream's answer to a lookup by username
    aResult       \* what getAdminUserId gave its caller

adminVars == <<aByEmail, aByUsername, aResult>>

VARIABLES
    \* ---- performWorkflowAction ----
    wPc,            \* where the call is
    wParams,        \* its parameters
    wUpstreamLists, \* the lists of the board on the upstream
    wBoardLists,    \* what getLists gave
    wTarget,        \* the target list found
    wTaskPc,        \* where the callback of each task ID is
    wCalls,         \* the operations that are over, in order
    wReturn         \* what the call returned or threw

workflowVars == <<wPc, wParams, wUpstreamLists, wBoardLists, wTarget,
                  wTaskPc, wCalls, wReturn>>

VARIABLES
    \* ---- a resource operation ----
    rOp,          \* the operation called
    rFirst,       \* the upstream's answer to its first call
    rSecond,      \* the upstream's answer to its second call, if any
    rResult       \* what the operation returned or threw

readVars == <<rOp, rFirst, rSecond, rResult>>

batchVars == <<bVariant, bTasks, bOutcome, bI, bPending, bResults, bErrors,
               bCalls, bReturn>>

VARIABLES
    sPc,          \* where the call of getBoardSummary stands
    sInclude,     \* its includeTaskDetails parameter
    sBoard,       \* the outcome of getBoard
    sLists,       \* the upstream's lists, with their cards and tasks
    sResult       \* what getBoardSummary returned or threw

summaryVars == <<sPc, sInclude, sBoard, sLists, sResult>>

VARIABLES
    lPc,          \* where the call of createLabel stands
    lOptions,     \* its options
    lAnswer,      \* the upstream's answer to the request
    lCalls,       \* the requests sent
    lResult       \* what createLabel returned or threw

labelVars == <<lPc, lOptions, lAnswer, lCalls, lResult>>

VARIABLES
    scPc,         \* where the scan stands
    scOp,         \* getTask or getComment
    scId,         \* the id looked for
    scProjects,   \* the outcome of the projects listing
    scBoards,     \* the boards of the listing with the upstream's answers
    scBoard,      \* the index of the board the scan is at
    scCard,       \* the index of the card the scan is at
    scFetched,    \* the boards and cards requested so far
    scResult      \* what the scan returned or threw

scanVars == <<scPc, scOp, scId, scProjects, scBoards, scBoard, scCard,
             scFetched, scResult>>

VARIABLES
    tPc,          \* where the call of the tool handler stands
    tCase,        \* the case of the switch the action selects
    tArgs,        \* the arguments given
    tInvoked,     \* the operations the handler called
    tResult       \* what the handler returned or threw

toolVars == <<tPc, tCase, tArgs, tInvoked, tResult>>

\* The sections that call no other section.
serviceVars == <<summaryVars, labelVars, scanVars, toolVars>>

coreVars == <<batchVars, boardVars, cardVars, stopwatchVars, clientVars,
             errorVars, adminVars, workflowVars, readVars>>

vars == <<coreVars, serviceVars>>

(***************************************************************************)
(* Task operations: createTask and the two variants of batchCreateTasks.   *)
(***************************************************************************)
CardIds == {"card1"}
TaskNames == {"a", "b"}

CreateTaskOptions == [cardId : CardIds, name : TaskNames]

TaskArrays == UNION {[0..(n - 1) -> CreateTaskOptions] : n \in 0..MaxTasks}

\* createTask: POST the task, parse the response, return the item; any
\* failure is rethrown as "Failed to create task: <message>".
createTask(options, outcome) ==
    IF outcome = "ok"
    THEN [threw |-> FALSE,
          value |-> [cardId |-> options.cardId, name |-> options.name]]
    ELSE [threw |-> TRUE,
          message |-> <<"Failed to create task", outcome>>]

BatchInit ==
    /\ bVariant = "idle"
    /\ bTasks = EmptyArray
    /\ bOutcome = EmptyArray
    /\ bI = 0
    /\ bPending = {}
    /\ bResults = EmptyArray
    /\ bErrors = EmptyArray
    /\ bCalls = EmptyArray
    /\ bReturn = [state |-> "pending"]

\* A batch in which the first failing task aborts the whole batch.
TaskAttemptAbort(task, index, outcome, errors) ==
    LET r == createTask(task, outcome) IN
    IF ~r.threw
    THEN [result |-> [success |-> TRUE, result |-> r.value],
          errors |-> errors,
          abort |-> FALSE]
    ELSE [result |-> [success |-> FALSE, error |-> [message |-> r.message]],
          errors |-> errors,
          abort |-> TRUE]

\* The body of the per-task try/catch, the same in the two variants: the
\* result record and the errors array after the attempt on task `index`.
\* abort tells whether the error escapes to the outer catch of
\* batchCreateTasks; the inner catch handles every error of createTask.
TaskAttempt(task, index, outcome, errors) ==
    LET r == createTask(task, outcome) IN
    IF ~r.threw
    THEN [result |-> [success |-> TRUE, result |-> r.value],
          errors |-> errors,
          abort |-> FALSE]
    ELSE [result |-> [success |-> FALSE, error |-> [message |-> r.message]],
          errors |-> ArrayPush(errors, [index |-> index, task |-> task,
                                        error |-> r.message]),
          abort |-> FALSE]

\* results.filter((r) => r.success).length; the holes of a sparse array
\* are skipped by filter.
CountSucceeded(results) ==
    Cardinality({k \in DOMAIN results : results[k].success})

\* results.filter((r) => r.success).map((r) => r.result)
RECURSIVE SuccessesFrom(_, _, _)
SuccessesFrom(results, k, acc) ==
    IF k >= ArrayLength(results) THEN acc
    ELSE IF k \in DOMAIN results /\ results[k].success
         THEN SuccessesFrom(results, k + 1, ArrayPush(acc, results[k].result))
         ELSE SuccessesFrom(results, k + 1, acc)

Successes(results) == SuccessesFrom(results, 0, EmptyArray)

\* ---- sequential variant ----
\* The call of batchCreateTasks: nothing is awaited before the loop.
SeqBatchCall ==
    /\ bVariant = "idle"
    /\ \E tasks \in TaskArrays :
         \E outcome \in [DOMAIN tasks -> UpstreamOutcomes] :
            /\ bTasks' = tasks
            /\ bOutcome' = outcome
    /\ bVariant' = "sequential"
    /\ bI' = 0
    /\ UNCHANGED <<bPending, bResults, bErrors, bCalls, bReturn>>

\* One iteration of the for loop: createTask(tasks[i]) is awaited, its
\* result or its error is recorded, and i is incremented.
SeqBatchIteration ==
    /\ bVariant = "sequential"
    /\ bReturn.state = "pending"
    /\ bI < ArrayLength(bTasks)
    /\ LET a == TaskAttempt(bTasks[bI], bI, bOutcome[bI], bErrors) IN
         /\ bCalls' = ArrayPush(bCalls, bI)
         /\ IF a.abort
            THEN /\ bReturn' = [state |-> "threw",
                                message |-> <<"Failed to batch create tasks",
                                              a.result.error.message>>]
                 /\ UNCHANGED <<bResults, bErrors, bI>>
            ELSE /\ bResults' = ArrayPush(bResults, a.result)
                 /\ bErrors' = a.errors
                 /\ bI' = bI + 1
                 /\ UNCHANGED bReturn
    /\ UNCHANGED <<bVariant, bTasks, bOutcome, bPending>>

\* The return statement after the loop.
SeqBatchReturn ==
    /\ bVariant = "sequential"
    /\ bReturn.state = "pending"
    /\ bI >= ArrayLength(bTasks)
    /\ bReturn' = [state |-> "returned",
                   results |-> bResults,
                   successes |-> Successes(bResults),
                   failures |-> bErrors]
    /\ UNCHANGED <<bVariant, bTasks, bOutcome, bI, bPending, bResults,
                   bErrors, bCalls>>

\* ---- parallel variant ----
\* The call: options.tasks.map starts every createTask (each issues its
\* request) before Promise.all is awaited.
ParBatchCall ==
    /\ bVariant = "idle"
    /\ \E tasks \in TaskArrays :
         \E outcome \in [DOMAIN tasks -> UpstreamOutcomes] :
            /\ bTasks' = tasks
            /\ bOutcome' = outcome
            /\ bPending' = DOMAIN tasks
            /\ bCalls' = [k \in DOMAIN tasks |-> k]
    /\ bVariant' = "parallel"
    /\ UNCHANGED <<bI, bResults, bErrors, bReturn>>

\* A settling that pushes its result on results, in the order of
\* completion.
ParBatchSettlePushes ==
    /\ bVariant = "parallel"
    /\ bReturn.state = "pending"
    /\ \E index \in bPending :
         LET a == TaskAttempt(bTasks[index], index, bOutcome[index], bErrors) IN
           /\ bPending' = bPending \ {index}
           /\ IF a.abort
              THEN /\ bReturn' = [state |-> "threw",
                                  message |-> <<"Failed to batch create tasks",
                                                a.result.error.message>>]
                   /\ UNCHANGED <<bResults, bErrors>>
              ELSE /\ bResults' = ArrayPush(bResults, a.result)
                   /\ bErrors' = a.errors
                   /\ UNCHANGED bReturn
    /\ UNCHANGED <<bVariant, bTasks, bOutcome, bI, bCalls>>

\* One task promise settles, in any order: results[index] is assigned and,
\* on failure, an entry is pushed on errors.
ParBatchSettle ==
    /\ bVariant = "parallel"
    /\ bReturn.state = "pending"
    /\ \E index \in bPending :
         LET a == TaskAttempt(bTasks[index], index, bOutcome[index], bErrors) IN
           /\ bPending' = bPending \ {index}
           /\ IF a.abort
              THEN /\ bReturn' = [state |-> "threw",
                                  message |-> <<"Failed to batch create tasks",
                                                a.result.error.message>>]
                   /\ UNCHANGED <<bResults, bErrors>>
              ELSE /\ bResults' = ArraySet(bResults, index, a.result)
                   /\ bErrors' = a.errors
                   /\ UNCHANGED bReturn
    /\ UNCHANGED <<bVariant, bTasks, bOutcome, bI, bCalls>>

\* Promise.all has resolved: the summary is built and returned.
ParBatchReturn ==
    /\ bVariant = "parallel"
    /\ bReturn.state = "pending"
    /\ bPending = {}
    /\ bReturn' = [state |-> "returned",
                   results |-> bResults,
                   summary |-> [total |-> ArrayLength(bTasks),
                                succeeded |-> CountSucceeded(bResults),
                                failed |-> ArrayLength(bErrors),
                                errors |-> IF ArrayLength(bErrors) > 0
                                           THEN bErrors ELSE UNDEFINED]]
    /\ UNCHANGED <<bVariant, bTasks, bOutcome, bI, bPending, bResults,
                   bErrors, bCalls>>

(***************************************************************************)
(* Admin identity resolution: getUserIdByEmail, getUserIdByUsername and    *)
(* getAdminUserId.                                                         *)
(***************************************************************************)
AdminEmail == "admin@example"
AdminUsername == "admin"

\* The configurations of the three environment variables; an unset
\* variable reads as undefined.
EnvConfigs == [PLANKA_ADMIN_ID : {UNDEFINED, "u0"},
               PLANKA_ADMIN_EMAIL : {UNDEFINED, AdminEmail},
               PLANKA_ADMIN_USERNAME : {UNDEFINED, AdminUsername}]

UserByEmail == [id |-> "u1", email |-> AdminEmail, username |-> "other"]
UserByUsername == [id |-> "u2", email |-> "other@example",
                   username |-> AdminUsername]

\* The user collections GET /api/users may answer with.
UserDirectories == {EmptyArray,
                    ArrayPush(EmptyArray, UserByEmail),
                    ArrayPush(EmptyArray, UserByUsername),
                    ArrayPush(ArrayPush(EmptyArray, UserByUsername),
                              UserByEmail)}

\* The answers to GET /api/users: the items, a body without items, or a
\* failure thrown by plankaRequest.
UsersResponses == {[status |-> "ok", items |-> d] : d \in UserDirectories}
                  \cup {[status |-> "malformed", items |-> EmptyArray],
                        [status |-> "reject", items |-> EmptyArray]}

\* items.find(...): the index of the first match, or -1.
FindIndex(items, matches) ==
    IF matches = {} THEN -1
    ELSE CHOOSE k \in matches : \A j \in matches : k <= j

getUserIdByEmail(email, response) ==
    IF response.status # "ok" THEN NULL
    ELSE LET k == FindIndex(response.items,
                            {j \in DOMAIN response.items :
                                response.items[j].email = email})
         IN  IF k >= 0 THEN response.items[k].id ELSE NULL

getUserIdByUsername(username, response) ==
    IF response.status # "ok" THEN NULL
    ELSE LET k == FindIndex(response.items,
                            {j \in DOMAIN response.items :
                                response.items[j].username = username})
         IN  IF k >= 0 THEN response.items[k].id ELSE NULL

\* A getAdminUserId that does not store the ID it found.
getAdminUserIdNoCache(cached, e, byEmail, byUsername) ==
    IF cached # NULL
    THEN [id |-> cached, cache |-> cached, lookups |-> EmptyArray]
    ELSE IF e.PLANKA_ADMIN_ID # UNDEFINED
    THEN [id |-> e.PLANKA_ADMIN_ID, cache |-> cached,
          lookups |-> EmptyArray]
    ELSE
      LET idE == IF e.PLANKA_ADMIN_EMAIL # UNDEFINED
                 THEN getUserIdByEmail(e.PLANKA_ADMIN_EMAIL, byEmail)
                 ELSE NULL
          lookE == IF e.PLANKA_ADMIN_EMAIL # UNDEFINED
                   THEN ArrayPush(EmptyArray, [call |-> "getUserIdByEmail",
                                               outcome |-> byEmail.status])
                   ELSE EmptyArray
      IN  IF idE # NULL
          THEN [id |-> idE, cache |-> cached, lookups |-> lookE]
          ELSE
            LET idU == IF e.PLANKA_ADMIN_USERNAME # UNDEFINED
                       THEN getUserIdByUsername(e.PLANKA_ADMIN_USERNAME,
                                                byUsername)
                       ELSE NULL
                lookU == IF e.PLANKA_ADMIN_USERNAME # UNDEFINED
                         THEN ArrayPush(lookE, [call |-> "getUserIdByUsername",
                                                outcome |-> byUsername.status])
                         ELSE lookE
            IN  IF idU # NULL
                THEN [id |-> idU, cache |-> cached, lookups |-> lookU]
                ELSE [id |-> NULL, cache |-> cached, lookups |-> lookU]

\* getAdminUserId with the cache `cached`, under environment e; byEmail and
\* byUsername are the upstream's answers to the lookups, should they be
\* made.  The result is the ID returned (or null), the cache afterwards
\* and the lookups made, in order, each with the upstream's answer.
getAdminUserId(cached, e, byEmail, byUsername) ==
    IF cached # NULL
    THEN [id |-> cached, cache |-> cached, lookups |-> EmptyArray]
    ELSE IF e.PLANKA_ADMIN_ID # UNDEFINED
    THEN [id |-> e.PLANKA_ADMIN_ID, cache |-> e.PLANKA_ADMIN_ID,
          lookups |-> EmptyArray]
    ELSE
      LET idE == IF e.PLANKA_ADMIN_EMAIL # UNDEFINED
                 THEN getUserIdByEmail(e.PLANKA_ADMIN_EMAIL, byEmail)
                 ELSE NULL
          lookE == IF e.PLANKA_ADMIN_EMAIL # UNDEFINED
                   THEN ArrayPush(EmptyArray, [call |-> "getUserIdByEmail",
                                               outcome |-> byEmail.status])
                   ELSE EmptyArray
      IN  IF idE # NULL
          THEN [id |-> idE, cache |-> idE, lookups |-> lookE]
          ELSE
            LET idU == IF e.PLANKA_ADMIN_USERNAME # UNDEFINED
                       THEN getUserIdByUsername(e.PLANKA_ADMIN_USERNAME,
                                                byUsername)
                       ELSE NULL
                lookU == IF e.PLANKA_ADMIN_USERNAME # UNDEFINED
                         THEN ArrayPush(lookE, [call |-> "getUserIdByUsername",
                                                outcome |-> byUsername.status])
                         ELSE lookE
            IN  IF idU # NULL
                THEN [id |-> idU, cache |-> idU, lookups |-> lookU]
                ELSE [id |-> NULL, cache |-> cached, lookups |-> lookU]

AdminInit ==
    /\ aByEmail \in UsersResponses
    /\ aByUsername \in UsersResponses
    /\ aResult = [state |-> "pending"]

\* await getAdminUserId(), by any caller.
AdminCall ==
    /\ aResult.state = "pending"
    /\ LET r == getAdminUserId(adminUserId, env, aByEmail, aByUsername) IN
         /\ adminUserId' = r.cache
         /\ aResult' = [state |-> "returned", id |-> r.id,
                        lookups |-> r.lookups]
    /\ UNCHANGED <<aByEmail, aByUsername>>

\* The caller goes on; the upstream's answers to the next lookups are
\* whatever they will be.
AdminNext ==
    /\ aResult.state = "returned"
    /\ aResult' = [state |-> "pending"]
    /\ aByEmail' \in UsersResponses
    /\ aByUsername' \in UsersResponses
    /\ UNCHANGED adminUserId

(***************************************************************************)
(* Board operations: createList, createLabel, createBoardMembership,       *)
(* createDefaultLists, createDefaultLabels and createBoard.                *)
(***************************************************************************)
ArrayOf(seq) == [k \in 0..(Len(seq) - 1) |-> seq[k + 1]]

\* The default lists with two positions exchanged.
defaultListsUnordered == ArrayOf(<<
    [name |-> "Backlog", position |-> 65535],
    [name |-> "To Do", position |-> 131070],
    [name |-> "In Progress", position |-> 196605],
    [name |-> "On Hold", position |-> 327675],
    [name |-> "Review", position |-> 262140],
    [name |-> "Done", position |-> 393210] >>)

defaultLists == ArrayOf(<<
    [name |-> "Backlog", position |-> 65535],
    [name |-> "To Do", position |-> 131070],
    [name |-> "In Progress", position |-> 196605],
    [name |-> "On Hold", position |-> 262140],
    [name |-> "Review", position |-> 327675],
    [name |-> "Done", position |-> 393210] >>)

defaultLabels == ArrayOf(<<
    [name |-> "P0: Critical", color |-> "berry-red", position |-> 65535],
    [name |-> "P1: High", color |-> "red-burgundy", position |-> 131070],
    [name |-> "P2: Medium", color |-> "pumpkin-orange", position |-> 196605],
    [name |-> "P3: Low", color |-> "sunny-grass", position |-> 262140],
    [name |-> "Bug", color |-> "coral-green", position |-> 327675],
    [name |-> "Feature", color |-> "lagoon-blue", position |-> 393210],
    [name |-> "Enhancement", color |-> "bright-moss", position |-> 458745],
    [name |-> "Documentation", color |-> "light-orange", position |-> 524280],
    [name |-> "Blocked", color |-> "midnight-blue", position |-> 589815],
    [name |-> "Needs Info", color |-> "desert-sand", position |-> 655350],
    [name |-> "Ready", color |-> "egg-yellow", position |-> 720885] >>)

BoardNames == {"B"}
BoardPositions == {1, 65535}
CreateBoardOptions == [projectId : {"p1"}, name : BoardNames,
                       position : BoardPositions]

NoBoard == [id |-> NULL]
NewBoard(options) == [id |-> "b1", name |-> options.name,
                      projectId |-> options.projectId,
                      position |-> options.position]

BoardInit ==
    /\ env \in EnvConfigs
    /\ adminUserId = NULL
    /\ cbPc = "idle"
    /\ cbOptions = [projectId |-> NULL]
    /\ cbBoard = NoBoard
    /\ cbAdmin = NULL
    /\ cbIndex = 0
    /\ cbCalls = EmptyArray
    /\ cbReturn = [state |-> "pending"]

\* createBoard is called: the POST of the board is issued.
CreateBoardCall ==
    /\ cbPc = "idle"
    /\ \E options \in CreateBoardOptions :
         /\ cbOptions' = options
         /\ cbCalls' = ArrayPush(EmptyArray,
                         [call |-> "createBoard", projectId |-> options.projectId,
                          name |-> options.name, position |-> options.position])
    /\ cbPc' = "post"
    /\ cbBoard' = NoBoard
    /\ cbAdmin' = NULL
    /\ cbIndex' = 0
    /\ cbReturn' = [state |-> "pending"]
    /\ UNCHANGED <<env, adminUserId>>

\* The POST returns: the response is parsed, or the failure is rethrown as
\* "Failed to create board: ...".
CreateBoardPosted ==
    /\ cbPc = "post"
    /\ \E outcome \in UpstreamOutcomes :
         IF outcome = "ok"
         THEN /\ cbBoard' = NewBoard(cbOptions)
              /\ cbPc' = "admin"
              /\ UNCHANGED cbReturn
         ELSE /\ cbReturn' = [state |-> "threw",
                              message |-> <<"Failed to create board", outcome>>]
              /\ cbPc' = "done"
              /\ UNCHANGED cbBoard
    /\ UNCHANGED <<env, adminUserId, cbOptions, cbAdmin, cbIndex, cbCalls>>

\* await getAdminUserId(): the lookups it makes are logged, the cache is
\* updated; with an ID the membership follows, without one the omission is
\* logged and the default lists follow.
CreateBoardAdmin ==
    /\ cbPc = "admin"
    /\ \E byEmail \in UsersResponses, byUsername \in UsersResponses :
         LET r == getAdminUserId(adminUserId, env, byEmail, byUsername) IN
           /\ adminUserId' = r.cache
           /\ cbAdmin' = r.id
           /\ cbCalls' = [k \in 0..(ArrayLength(cbCalls)
                                      + ArrayLength(r.lookups) - 1) |->
                            IF k < ArrayLength(cbCalls) THEN cbCalls[k]
                            ELSE r.lookups[k - ArrayLength(cbCalls)]]
           /\ cbPc' = IF r.id # NULL THEN "member" ELSE "lists"
    /\ UNCHANGED <<env, cbOptions, cbBoard, cbIndex, cbReturn>>

\* A membership step without its try/catch: the failure reaches the outer
\* catch of createBoard.
CreateBoardMemberThrows ==
    /\ cbPc = "member"
    /\ \E outcome \in UpstreamOutcomes :
         /\ cbCalls' = ArrayPush(cbCalls,
                      [call |-> "createBoardMembership", boardId |-> cbBoard.id,
                       userId |-> cbAdmin, role |-> "editor",
                       outcome |-> outcome])
         /\ IF outcome = "ok"
            THEN cbPc' = "lists" /\ UNCHANGED cbReturn
            ELSE /\ cbPc' = "done"
                 /\ cbReturn' = [state |-> "threw",
                                 message |-> <<"Failed to create board",
                                               outcome>>]
    /\ UNCHANGED <<env, adminUserId, cbOptions, cbBoard, cbAdmin, cbIndex>>

\* await createBoardMembership({boardId, userId, role: "editor"}) inside
\* its own try/catch: a failure is logged and the default lists follow.
CreateBoardMember ==
    /\ cbPc = "member"
    /\ \E outcome \in UpstreamOutcomes :
         cbCalls' = ArrayPush(cbCalls,
                      [call |-> "createBoardMembership", boardId |-> cbBoard.id,
                       userId |-> cbAdmin, role |-> "editor",
                       outcome |-> outcome])
    /\ cbPc' = "lists"
    /\ UNCHANGED <<env, adminUserId, cbOptions, cbBoard, cbAdmin, cbIndex,
                   cbReturn>>

\* A loop that goes on to the next list after a failing createList.
CreateBoardListContinues ==
    /\ cbPc = "lists"
    /\ \E outcome \in UpstreamOutcomes :
         cbCalls' = ArrayPush(cbCalls,
                         [call |-> "createList", boardId |-> cbBoard.id,
                          name |-> defaultLists[cbIndex].name,
                          position |-> defaultLists[cbIndex].position,
                          outcome |-> outcome])
    /\ IF cbIndex + 1 < ArrayLength(defaultLists)
       THEN cbIndex' = cbIndex + 1 /\ cbPc' = "lists"
       ELSE cbIndex' = 0 /\ cbPc' = "labels"
    /\ UNCHANGED <<env, adminUserId, cbOptions, cbBoard, cbAdmin, cbReturn>>

\* One iteration of the loop of createDefaultLists: a failing createList
\* leaves the loop through the catch, which logs the error.
CreateBoardList ==
    /\ cbPc = "lists"
    /\ \E outcome \in UpstreamOutcomes :
         /\ cbCalls' = ArrayPush(cbCalls,
                         [call |-> "createList", boardId |-> cbBoard.id,
                          name |-> defaultLists[cbIndex].name,
                          position |-> defaultLists[cbIndex].position,
                          outcome |-> outcome])
         /\ IF outcome = "ok" /\ cbIndex + 1 < ArrayLength(defaultLists)
            THEN cbIndex' = cbIndex + 1 /\ cbPc' = "lists"
            ELSE cbIndex' = 0 /\ cbPc' = "labels"
    /\ UNCHANGED <<env, adminUserId, cbOptions, cbBoard, cbAdmin, cbReturn>>

\* One iteration of the loop of createDefaultLabels.
CreateBoardLabel ==
    /\ cbPc = "labels"
    /\ \E outcome \in UpstreamOutcomes :
         /\ cbCalls' = ArrayPush(cbCalls,
                         [call |-> "createLabel", boardId |-> cbBoard.id,
                          name |-> defaultLabels[cbIndex].name,
                          color |-> defaultLabels[cbIndex].color,
                          position |-> defaultLabels[cbIndex].position,
                          outcome |-> outcome])
         /\ IF outcome = "ok" /\ cbIndex + 1 < ArrayLength(defaultLabels)
            THEN cbIndex' = cbIndex + 1 /\ cbPc' = "labels"
            ELSE cbIndex' = 0 /\ cbPc' = "return"
    /\ UNCHANGED <<env, adminUserId, cbOptions, cbBoard, cbAdmin, cbReturn>>

\* return board
CreateBoardReturn ==
    /\ cbPc = "return"
    /\ cbReturn' = [state |-> "returned", board |-> cbBoard]
    /\ cbPc' = "done"
    /\ UNCHANGED <<env, adminUserId, cbOptions, cbBoard, cbAdmin, cbIndex,
                   cbCalls>>

\* The caller has its answer and the locals of the call are gone;
\* createBoard may be called again.  The admin user ID cached by the
\* earlier calls stays.
CreateBoardDone ==
    /\ cbPc = "done"
    /\ cbPc' = "idle"
    /\ cbOptions' = [projectId |-> NULL]
    /\ cbBoard' = NoBoard
    /\ cbAdmin' = NULL
    /\ cbIndex' = 0
    /\ cbCalls' = EmptyArray
    /\ cbReturn' = [state |-> "pending"]
    /\ UNCHANGED <<env, adminUserId>>

(***************************************************************************)
(* The helper createCardWithTasks.                                         *)
(***************************************************************************)
\* The truthiness of a string or of a missing value.
Truthy(v) == v \notin {UNDEFINED, NULL, ""}

UserIds == {"u1", "u2"}
CardTaskNames == {"t1", "t2"}
TaskComments == {UNDEFINED, "note"}
GlobalComments == {UNDEFINED, "", "done"}

TaskObjects == [name : CardTaskNames, comment : TaskComments]

\* The parameters; an absent tasks or memberIds array is handled as an
\* empty one, and position has the default.
CreateCardWithTasksParams ==
    [listId : {"l1"}, name : {"X"},
     tasks : UNION {[0..(n - 1) -> TaskObjects] : n \in 0..MaxCardTasks},
     comment : GlobalComments,
     position : {65535},
     memberIds : UNION {[0..(n - 1) -> UserIds] : n \in 0..MaxMembers}]

\* The outcomes of assignMemberToCard: it returns or it throws.
AssignOutcomes == {"ok", "reject"}

\* The text of the comment attached for a task, made of its parts:
\* `Comment for task "${name}": ${comment}`.
TaskCommentText(taskObject) ==
    <<"Comment for task \"", taskObject.name, "\": ", taskObject.comment>>

\* The text of the global comment: the comment itself.
GlobalCommentText(comment) == <<comment>>

\* The step that follows the member assignments, the tasks, and the
\* per-task comment of task i.
AfterTasks(params) ==
    IF Truthy(params.comment) THEN "comment" ELSE "return"

AfterMembers(params) ==
    IF ArrayLength(params.tasks) > 0 THEN "tasks" ELSE AfterTasks(params)

AfterCard(params) ==
    IF ArrayLength(params.memberIds) > 0 THEN "members"
    ELSE AfterMembers(params)

AfterTask(params, i) ==
    IF i + 1 < ArrayLength(params.tasks) THEN "tasks" ELSE AfterTasks(params)

CardInit ==
    /\ ccPc = "idle"
    /\ ccParams = [listId |-> NULL]
    /\ ccCard = [id |-> NULL]
    /\ ccTasks = EmptyArray
    /\ ccComment = [id |-> NULL]
    /\ ccIndex = 0
    /\ ccCalls = EmptyArray
    /\ ccReturn = [state |-> "pending"]

\* The error reaches the catch of createCardWithTasks, which logs it and
\* throws it again.
CardThrow(message) ==
    /\ ccReturn' = [state |-> "threw", message |-> message]
    /\ ccPc' = "done"

\* createCardWithTasks is called: createCard is called with the
\* description defaulted to "".
CardCall ==
    /\ ccPc = "idle"
    /\ \E params \in CreateCardWithTasksParams :
         /\ ccParams' = params
         /\ ccCalls' = ArrayPush(EmptyArray,
                         [call |-> "createCard", listId |-> params.listId,
                          name |-> params.name, description |-> "",
                          position |-> params.position])
    /\ ccPc' = "card"
    /\ ccCard' = [id |-> NULL]
    /\ ccTasks' = EmptyArray
    /\ ccComment' = [id |-> NULL]
    /\ ccIndex' = 0
    /\ ccReturn' = [state |-> "pending"]

\* createCard returns the card or throws "Failed to create card: ...".
CardCreated ==
    /\ ccPc = "card"
    /\ \E outcome \in UpstreamOutcomes :
         IF outcome = "ok"
         THEN /\ ccCard' = [id |-> "c1", name |-> ccParams.name,
                            listId |-> ccParams.listId]
              /\ ccPc' = AfterCard(ccParams)
              /\ UNCHANGED ccReturn
         ELSE /\ CardThrow(<<"Failed to create card", outcome>>)
              /\ UNCHANGED ccCard
    /\ UNCHANGED <<ccParams, ccTasks, ccComment, ccIndex, ccCalls>>

\* A member assignment without its try/catch: the first failing assignment
\* ends createCardWithTasks.
CardAssignMemberAborts ==
    /\ ccPc = "members"
    /\ \E outcome \in AssignOutcomes :
         /\ ccCalls' = ArrayPush(ccCalls,
                      [call |-> "assignMemberToCard", cardId |-> ccCard.id,
                       userId |-> ccParams.memberIds[ccIndex],
                       outcome |-> outcome])
         /\ IF outcome # "ok"
            THEN /\ CardThrow(<<"Failed to assign member", outcome>>)
                 /\ UNCHANGED ccIndex
            ELSE /\ UNCHANGED ccReturn
                 /\ IF ccIndex + 1 < ArrayLength(ccParams.memberIds)
                    THEN ccIndex' = ccIndex + 1 /\ ccPc' = "members"
                    ELSE ccIndex' = 0 /\ ccPc' = AfterMembers(ccParams)
    /\ UNCHANGED <<ccParams, ccCard, ccTasks, ccComment>>

\* One iteration of the loop over memberIds: assignMemberToCard in its own
\* try/catch; a failure is logged with console.warn.
CardAssignMember ==
    /\ ccPc = "members"
    /\ \E outcome \in AssignOutcomes :
         ccCalls' = ArrayPush(ccCalls,
                      [call |-> "assignMemberToCard", cardId |-> ccCard.id,
                       userId |-> ccParams.memberIds[ccIndex],
                       outcome |-> outcome])
    /\ IF ccIndex + 1 < ArrayLength(ccParams.memberIds)
       THEN ccIndex' = ccIndex + 1 /\ ccPc' = "members"
       ELSE ccIndex' = 0 /\ ccPc' = AfterMembers(ccParams)
    /\ UNCHANGED <<ccParams, ccCard, ccTasks, ccComment, ccReturn>>

\* Every task at the same position.
TaskPositionConstant(i) == 65535

\* const taskPosition = 65535 * (i + 1)
TaskPosition(i) == 65535 * (i + 1)

\* One iteration of the loop over tasks, up to the per-task comment:
\* createTask at position 65535 * (i + 1); its failure is not caught in
\* the loop.
CardCreateTask ==
    /\ ccPc = "tasks"
    /\ \E outcome \in UpstreamOutcomes :
         LET taskObject == ccParams.tasks[ccIndex]
             taskPosition == TaskPosition(ccIndex)
         IN
           /\ ccCalls' = ArrayPush(ccCalls,
                           [call |-> "createTask", cardId |-> ccCard.id,
                            name |-> taskObject.name,
                            position |-> taskPosition, outcome |-> outcome])
           /\ IF outcome = "ok"
              THEN /\ ccTasks' = ArrayPush(ccTasks,
                                   [id |-> ccIndex, cardId |-> ccCard.id,
                                    name |-> taskObject.name,
                                    position |-> taskPosition])
                   /\ IF Truthy(taskObject.comment)
                      THEN ccPc' = "taskComment" /\ UNCHANGED ccIndex
                      ELSE /\ ccPc' = AfterTask(ccParams, ccIndex)
                           /\ ccIndex' = ccIndex + 1
                   /\ UNCHANGED ccReturn
              ELSE /\ CardThrow(<<"Failed to create task", outcome>>)
                   /\ UNCHANGED <<ccTasks, ccIndex>>
    /\ UNCHANGED <<ccParams, ccCard, ccComment>>

\* The comment of task i, in its own try/catch: a failure is logged.
CardTaskComment ==
    /\ ccPc = "taskComment"
    /\ \E outcome \in UpstreamOutcomes :
         ccCalls' = ArrayPush(ccCalls,
                      [call |-> "createComment", cardId |-> ccCard.id,
                       text |-> TaskCommentText(ccParams.tasks[ccIndex]),
                       outcome |-> outcome])
    /\ ccPc' = AfterTask(ccParams, ccIndex)
    /\ ccIndex' = ccIndex + 1
    /\ UNCHANGED <<ccParams, ccCard, ccTasks, ccComment, ccReturn>>

\* The global comment: its failure is not caught before the outer catch.
CardGlobalComment ==
    /\ ccPc = "comment"
    /\ \E outcome \in UpstreamOutcomes :
         /\ ccCalls' = ArrayPush(ccCalls,
                         [call |-> "createComment", cardId |-> ccCard.id,
                          text |-> GlobalCommentText(ccParams.comment),
                          outcome |-> outcome])
         /\ IF outcome = "ok"
            THEN /\ ccComment' = [id |-> "a1", cardId |-> ccCard.id,
                                  text |-> GlobalCommentText(ccParams.comment)]
                 /\ ccPc' = "return"
                 /\ UNCHANGED ccReturn
            ELSE /\ CardThrow(<<"Failed to create comment", outcome>>)
                 /\ UNCHANGED ccComment
    /\ UNCHANGED <<ccParams, ccCard, ccTasks, ccIndex>>

\* return {card, tasks: createdTasks, comment: createdGlobalCardComment}
CardReturn ==
    /\ ccPc = "return"
    /\ ccReturn' = [state |-> "returned", card |-> ccCard, tasks |-> ccTasks,
                    comment |-> ccComment]
    /\ ccPc' = "done"
    /\ UNCHANGED <<ccParams, ccCard, ccTasks, ccComment, ccIndex, ccCalls>>

\* The caller has its answer and the locals of the call are gone; the
\* helper may be called again.
CardDone ==
    /\ ccPc = "done"
    /\ ccPc' = "idle"
    /\ ccParams' = [listId |-> NULL]
    /\ ccCard' = [id |-> NULL]
    /\ ccTasks' = EmptyArray
    /\ ccComment' = [id |-> NULL]
    /\ ccIndex' = 0
    /\ ccCalls' = EmptyArray
    /\ ccReturn' = [state |-> "pending"]

(***************************************************************************)
(* Card stopwatch: startCardStopwatch, stopCardStopwatch, getCardStopwatch *)
(* and resetCardStopwatch.                                                 *)
(***************************************************************************)
\* card.stopwatch is null or {startedAt, total}; startedAt is null or an
\* ISO string.
NullStopwatch == [isNull |-> TRUE]
NullStartedAt == [isNull |-> TRUE]

\* new Date(ms).toISOString() keeps the milliseconds, and
\* new Date(iso).getTime() reads them back.
toISOString(ms) == [isNull |-> FALSE, iso |-> ms]
getTime(startedAt) == startedAt.iso

Stopwatch(startedAt, total) ==
    [isNull |-> FALSE, startedAt |-> startedAt, total |-> total]

\* The difference taken the wrong way round.
ElapsedSecondsReversed(now, startedAt) == (getTime(startedAt) - now) \div 1000

\* Math.floor((now.getTime() - startedAt.getTime()) / 1000)
ElapsedSeconds(now, startedAt) == (now - getTime(startedAt)) \div 1000

\* A start that adds the time run so far to the total.
StartedStopwatchAccumulates(card, now) ==
    Stopwatch(toISOString(now),
              IF card.isNull THEN 0
              ELSE IF card.startedAt.isNull THEN card.total
              ELSE card.total + ElapsedSeconds(now, card.startedAt))

\* The stopwatch startCardStopwatch sends: startedAt is now, the total is
\* the total of the card read when it has one.
StartedStopwatch(card, now) ==
    Stopwatch(toISOString(now),
              IF ~card.isNull /\ card.total # 0 THEN card.total ELSE 0)

\* A stop that adds the elapsed time and leaves startedAt as it was.
StoppedStopwatchStillRunning(card, now) ==
    Stopwatch(card.startedAt, card.total + ElapsedSeconds(now, card.startedAt))

\* The stopwatch stopCardStopwatch sends for a running stopwatch.
StoppedStopwatch(card, now) ==
    Stopwatch(NullStartedAt, card.total + ElapsedSeconds(now, card.startedAt))

\* What getCardStopwatch returns for the card read.
StopwatchInfo(card, now) ==
    IF card.isNull
    THEN [isRunning |-> FALSE, total |-> 0, current |-> 0]
    ELSE [isRunning |-> ~card.startedAt.isNull,
          total |-> card.total,
          current |-> IF ~card.startedAt.isNull
                      THEN ElapsedSeconds(now, card.startedAt) ELSE 0]

StopwatchInit ==
    /\ swNow = 0
    /\ swStored = NullStopwatch
    /\ swOp = "none"
    /\ swPc = "idle"
    /\ swCard = NullStopwatch
    /\ swBody = NullStopwatch
    /\ swResult = [state |-> "pending"]
    /\ swPrev = [op |-> "none", state |-> "none"]

\* Time passes.
ClockTick ==
    /\ swNow < MaxTicks * TickMs
    /\ swNow' = swNow + TickMs
    /\ UNCHANGED <<swStored, swOp, swPc, swCard, swBody, swResult, swPrev>>

\* start, stop and get are called: each begins with getCard(id).
StopwatchCall ==
    /\ swPc = "idle"
    /\ swOp' \in {"start", "stop", "get"}
    /\ swPc' = "getCard"
    /\ UNCHANGED <<swNow, swStored, swCard, swBody, swResult, swPrev>>

\* reset is called: it sends PATCH {stopwatch: null} without reading.
ResetCall ==
    /\ swPc = "idle"
    /\ swOp' = "reset"
    /\ swBody' = NullStopwatch
    /\ swPc' = "patch"
    /\ UNCHANGED <<swNow, swStored, swCard, swResult, swPrev>>

\* The operation ends by throwing "Failed to <operation>: ...".
StopwatchThrow(cause) ==
    /\ swResult' = [state |-> "threw", message |-> <<swOp, cause>>]
    /\ swPc' = "done"

\* A stop that sends the card's stopwatch back when none runs.
GotCardStopPatches ==
    /\ swPc = "getCard"
    /\ \E outcome \in UpstreamOutcomes :
         IF outcome # "ok"
         THEN /\ StopwatchThrow(outcome)
              /\ UNCHANGED <<swCard, swBody>>
         ELSE
           /\ swCard' = swStored
           /\ CASE swOp = "start" ->
                    /\ swBody' = StartedStopwatch(swStored, swNow)
                    /\ swPc' = "patch"
                    /\ UNCHANGED swResult
                [] swOp = "stop" ->
                    IF swStored.isNull \/ swStored.startedAt.isNull
                    THEN /\ swBody' = swStored
                         /\ swPc' = "patch"
                         /\ UNCHANGED swResult
                    ELSE /\ swBody' = StoppedStopwatch(swStored, swNow)
                         /\ swPc' = "patch"
                         /\ UNCHANGED swResult
                [] swOp = "get" ->
                    /\ swResult' = [state |-> "returned",
                                    info |-> StopwatchInfo(swStored, swNow)]
                    /\ swPc' = "done"
                    /\ UNCHANGED swBody
    /\ UNCHANGED <<swNow, swStored, swOp, swPrev>>

\* getCard answers.  start computes its stopwatch and sends the PATCH; stop
\* returns the card as it is when no stopwatch runs, else computes the
\* stopped stopwatch and sends the PATCH; get returns its information.
GotCard ==
    /\ swPc = "getCard"
    /\ \E outcome \in UpstreamOutcomes :
         IF outcome # "ok"
         THEN /\ StopwatchThrow(outcome)
              /\ UNCHANGED <<swCard, swBody>>
         ELSE
           /\ swCard' = swStored
           /\ CASE swOp = "start" ->
                    /\ swBody' = StartedStopwatch(swStored, swNow)
                    /\ swPc' = "patch"
                    /\ UNCHANGED swResult
                [] swOp = "stop" ->
                    IF swStored.isNull \/ swStored.startedAt.isNull
                    THEN /\ swResult' = [state |-> "returned",
                                         stopwatch |-> swStored]
                         /\ swPc' = "done"
                         /\ UNCHANGED swBody
                    ELSE /\ swBody' = StoppedStopwatch(swStored, swNow)
                         /\ swPc' = "patch"
                         /\ UNCHANGED swResult
                [] swOp = "get" ->
                    /\ swResult' = [state |-> "returned",
                                    info |-> StopwatchInfo(swStored, swNow)]
                    /\ swPc' = "done"
                    /\ UNCHANGED swBody
    /\ UNCHANGED <<swNow, swStored, swOp, swPrev>>

\* The PATCH answers: the upstream has stored the stopwatch of the body and
\* returns the card, unless it rejected the request; a response the schema
\* rejects makes the operation throw although the stopwatch is stored.
Patched ==
    /\ swPc = "patch"
    /\ \E outcome \in UpstreamOutcomes :
         /\ swStored' = IF outcome = "reject" THEN swStored ELSE swBody
         /\ IF outcome = "ok"
            THEN /\ swResult' = [state |-> "returned", stopwatch |-> swBody]
                 /\ swPc' = "done"
            ELSE StopwatchThrow(outcome)
    /\ UNCHANGED <<swNow, swOp, swCard, swBody, swPrev>>

\* The caller has its answer; the next operation may be called.
StopwatchDone ==
    /\ swPc = "done"
    /\ swPrev' = [op |-> swOp, state |-> swResult.state]
    /\ swOp' = "none"
    /\ swPc' = "idle"
    /\ swCard' = NullStopwatch
    /\ swBody' = NullStopwatch
    /\ swResult' = [state |-> "pending"]
    /\ UNCHANGED <<swNow, swStored>>

(***************************************************************************)
(* The error taxonomy: the PlankaError classes and createPlankaError.      *)
(* A message is a sequence of pieces, so that a template literal is a      *)
(* concatenation.  A payload is what parseResponseBody returned: JSON      *)
(* null, a text, or an object whose absent fields are undefined.           *)
(***************************************************************************)
Statuses == {400, 401, 403, 404, 409, 422, 429, 500}

PayloadMessages == {UNDEFINED, "", "bad name"}

\* Values of reset_at: absent, empty, an ISO date-time, a date that
\* Date parses but prints otherwise, and a text that is no date.
ResetAts == {UNDEFINED, "", "2030-01-01T00:00:00.000Z", "2030-01-01", "soon"}

ObjectPayload(message, reset_at) ==
    [type |-> "object", message |-> message, reset_at |-> reset_at]

Payloads ==
    {[type |-> "null"], [type |-> "text", text |-> "Bad Gateway"]}
    \cup {ObjectPayload(m, d) : m \in PayloadMessages, d \in ResetAts}

\* response?.message
MessageOf(response) ==
    IF response.type = "object" THEN response.message ELSE UNDEFINED

\* response?.reset_at
ResetAtOf(response) ==
    IF response.type = "object" THEN response.reset_at ELSE UNDEFINED

\* a || b
Or(a, b) == IF Truthy(a) THEN a ELSE b

\* A parameter with a default value takes it for undefined only.
Default(a, b) == IF a = UNDEFINED THEN b ELSE a

\* new Date(value): the time value, or NaN for a text that is no date.
NowPlusMinute == "now+60000"
NewDate(value) ==
    CASE value = NowPlusMinute -> [valid |-> TRUE, iso |-> NowPlusMinute]
      [] value \in {"2030-01-01T00:00:00.000Z", "2030-01-01"} ->
            [valid |-> TRUE, iso |-> "2030-01-01T00:00:00.000Z"]
      [] OTHER -> [valid |-> FALSE]

\* The constructor of PlankaError and of the classes that pass message,
\* status and response through.
PlankaError(name, message, status, response) ==
    [threw |-> FALSE, isPlankaError |-> TRUE, name |-> name,
     message |-> <<message>>, status |-> status, response |-> response]

PlankaValidationError(message, status, response) ==
    PlankaError("PlankaValidationError", message, status, response)

PlankaResourceNotFoundError(resource) ==
    [threw |-> FALSE, isPlankaError |-> TRUE,
     name |-> "PlankaResourceNotFoundError",
     message |-> <<"Resource not found: ", resource>>, status |-> 404,
     response |-> [type |-> "object",
                   messagePieces |-> <<resource, " not found">>]]

PlankaAuthenticationError(message) ==
    LET m == Default(message, "Authentication failed")
    IN  PlankaError("PlankaAuthenticationError", m, 401,
                    [type |-> "object", message |-> m])

PlankaPermissionError(message) ==
    LET m == Default(message, "Insufficient permissions")
    IN  PlankaError("PlankaPermissionError", m, 403,
                    [type |-> "object", message |-> m])

\* resetAt.toISOString() of an invalid date throws in the constructor.
RangeError ==
    [threw |-> TRUE, isPlankaError |-> FALSE, name |-> "RangeError",
     message |-> <<"Invalid time value">>]

PlankaRateLimitError(message, resetAt) ==
    LET m == Default(message, "Rate limit exceeded")
    IN  IF resetAt.valid
        THEN [threw |-> FALSE, isPlankaError |-> TRUE,
              name |-> "PlankaRateLimitError", message |-> <<m>>,
              status |-> 429,
              response |-> [type |-> "object", message |-> m,
                            reset_at |-> resetAt.iso],
              resetAt |-> resetAt]
        ELSE RangeError

PlankaConflictError(message) ==
    PlankaError("PlankaConflictError", message, 409,
                [type |-> "object", message |-> message])

\* error instanceof PlankaError
isPlankaError(error) == error.isPlankaError

\* A createPlankaError that sends 422 to the default case.
createPlankaErrorNoValidation(status, response) ==
    CASE status = 401 -> PlankaAuthenticationError(MessageOf(response))
      [] status = 403 -> PlankaPermissionError(MessageOf(response))
      [] status = 404 ->
            PlankaResourceNotFoundError(Or(MessageOf(response), "Resource"))
      [] status = 409 ->
            PlankaConflictError(Or(MessageOf(response), "Conflict occurred"))
      [] status = 429 ->
            PlankaRateLimitError(MessageOf(response),
                NewDate(Or(ResetAtOf(response), NowPlusMinute)))
      [] OTHER ->
            PlankaError("PlankaError",
                        Or(MessageOf(response), "Planka API error"),
                        status, response)

createPlankaError(status, response) ==
    CASE status = 401 -> PlankaAuthenticationError(MessageOf(response))
      [] status = 403 -> PlankaPermissionError(MessageOf(response))
      [] status = 404 ->
            PlankaResourceNotFoundError(Or(MessageOf(response), "Resource"))
      [] status = 409 ->
            PlankaConflictError(Or(MessageOf(response), "Conflict occurred"))
      [] status = 422 ->
            PlankaValidationError(
                Or(MessageOf(response), "Validation failed"),
                status, response)
      [] status = 429 ->
            PlankaRateLimitError(MessageOf(response),
                NewDate(Or(ResetAtOf(response), NowPlusMinute)))
      [] OTHER ->
            PlankaError("PlankaError",
                        Or(MessageOf(response), "Planka API error"),
                        status, response)

ErrorInit ==
    /\ eStatus \in Statuses
    /\ eResponse \in Payloads
    /\ eError = [state |-> "pending"]

\* createPlankaError(status, response) is called.
CreateError ==
    /\ eError.state = "pending"
    /\ eError' = [state |-> "called",
                  value |-> createPlankaError(eStatus, eResponse)]
    /\ UNCHANGED <<eStatus, eResponse>>

(***************************************************************************)
(* The HTTP client core: authenticateAgent, getAuthToken, plankaRequest.   *)
(***************************************************************************)
Requests == 1..MaxRequests

Tokens == {"tokenA", "tokenB"}

\* The non-2xx answers of the upstream: a status and the parsed body.
Rejections ==
    {[kind |-> "status", status |-> 401, body |-> [type |-> "null"]],
     [kind |-> "status", status |-> 422,
      body |-> ObjectPayload("bad name", UNDEFINED)],
     [kind |-> "status", status |-> 429,
      body |-> ObjectPayload(UNDEFINED, UNDEFINED)],
     [kind |-> "status", status |-> 429,
      body |-> ObjectPayload(UNDEFINED, "soon")],
     [kind |-> "status", status |-> 500,
      body |-> [type |-> "text", text |-> "Bad Gateway"]]}

\* The answers to POST /api/access-tokens: a 2xx body {item: token}, a 2xx
\* body without item, a 2xx body that is null, a non-2xx status, or a
\* network failure of fetch.
LoginResponses ==
    {[kind |-> "item", item |-> t] : t \in Tokens}
    \cup {[kind |-> "noItem"], [kind |-> "nullBody"], [kind |-> "network"]}
    \cup {rj \in Rejections : rj.status \in {401, 429}}

\* The answers to the requested call: a 2xx body, a non-2xx status, or a
\* network failure of fetch.
RequestResponses ==
    {[kind |-> "ok"], [kind |-> "network"]} \cup Rejections

\* An exception that is no PlankaError.
JsError(name, message) ==
    [isPlankaError |-> FALSE, name |-> name, message |-> message]

\* What the try block throws on an answer that is not a 2xx body: fetch
\* rejects, the destructuring of null fails, or createPlankaError is
\* thrown (or throws).
CauseOf(response) ==
    CASE response.kind = "network" -> JsError("TypeError", <<"fetch failed">>)
      [] response.kind = "nullBody" ->
            JsError("TypeError", <<"Cannot destructure property 'item'">>)
      [] response.kind = "status" ->
            createPlankaError(response.status, response.body)

Url == "<url>"

\* authenticateAgent: if (!email || !password) throw new Error(...)
CredentialsRequired ==
    JsError("Error", <<"PLANKA_AGENT_EMAIL and PLANKA_AGENT_PASSWORD environment variables are required">>)

\* authenticateAgent, catch: throw new Error(`Failed to authenticate ...`)
AuthenticateError(cause) ==
    JsError("Error",
            <<"Failed to authenticate agent with Planka: ">> \o cause.message)

\* A plankaRequest that lets the error of getAuthToken through.
TokenErrorRethrown(cause) == cause

\* plankaRequest, catch around getAuthToken.
TokenError(cause) ==
    JsError("Error",
            <<"Failed to get authentication token: ">> \o cause.message)

\* plankaRequest, catch around the fetch.
RequestError(cause) ==
    JsError("Error",
            <<"Failed to make Planka request to ", Url, ": ">>
                \o cause.message)

IdleRequest == [pc |-> "idle", skipAuth |-> FALSE, token |-> NULL,
                loggedIn |-> FALSE, loginItem |-> NULL,
                loginCalls |-> 0, fetches |-> 0,
                answer |-> [kind |-> "none"],
                result |-> [state |-> "pending"]]

ClientInit ==
    /\ agentCredentials \in BOOLEAN
    /\ agentToken = NULL
    /\ req = [r \in Requests |-> IdleRequest]
    /\ logins = 0
    /\ lastLogin = NULL

\* A getAuthToken that never takes the cached token.
HasCachedTokenNever(cached) == FALSE

\* getAuthToken: if (agentToken) return agentToken
HasCachedToken(cached) == Truthy(cached)

\* An authenticateAgent that keeps the token of the first login.
CacheLoginItemOnce(cached, item) == IF Truthy(cached) THEN cached ELSE item

\* authenticateAgent on a 2xx response: const {item} = responseBody;
\* agentToken = item.  The value is the cache afterwards.
CacheLoginItem(cached, item) == item

\* A getAuthToken that takes the cache as it is, empty or not, once a
\* login has been issued.
RequestCallLoginOnce(r) ==
    /\ req[r].pc = "idle"
    /\ \E skipAuth \in BOOLEAN :
         IF skipAuth
         THEN /\ req' = [req EXCEPT ![r].pc = "sent", ![r].skipAuth = TRUE,
                                     ![r].fetches = 1]
              /\ UNCHANGED logins
         ELSE IF HasCachedToken(agentToken) \/ logins > 0
         THEN /\ req' = [req EXCEPT ![r].pc = "authed",
                                     ![r].token = agentToken]
              /\ UNCHANGED logins
         ELSE IF ~agentCredentials
         THEN /\ req' = [req EXCEPT
                    ![r].pc = "done",
                    ![r].result =
                        [state |-> "threw",
                         error |-> TokenError(CredentialsRequired)]]
              /\ UNCHANGED logins
         ELSE /\ req' = [req EXCEPT ![r].pc = "login", ![r].loggedIn = TRUE,
                                     ![r].loginCalls = 1]
              /\ logins' = logins + 1
    /\ UNCHANGED <<agentCredentials, agentToken, lastLogin>>

\* plankaRequest is called.  With skipAuth the fetch is issued at once.
\* Otherwise getAuthToken runs up to its first await: a cached token is
\* taken; without one authenticateAgent throws when the credentials are
\* not configured and else issues the login call.
RequestCall(r) ==
    /\ req[r].pc = "idle"
    /\ \E skipAuth \in BOOLEAN :
         IF skipAuth
         THEN /\ req' = [req EXCEPT ![r].pc = "sent", ![r].skipAuth = TRUE,
                                     ![r].fetches = 1]
              /\ UNCHANGED logins
         ELSE IF HasCachedToken(agentToken)
         THEN /\ req' = [req EXCEPT ![r].pc = "authed",
                                     ![r].token = agentToken]
              /\ UNCHANGED logins
         ELSE IF ~agentCredentials
         THEN /\ req' = [req EXCEPT
                    ![r].pc = "done",
                    ![r].result =
                        [state |-> "threw",
                         error |-> TokenError(CredentialsRequired)]]
              /\ UNCHANGED logins
         ELSE /\ req' = [req EXCEPT ![r].pc = "login", ![r].loggedIn = TRUE,
                                     ![r].loginCalls = 1]
              /\ logins' = logins + 1
    /\ UNCHANGED <<agentCredentials, agentToken, lastLogin>>

\* An authenticateAgent that repeats a login that failed, once.
LoginResponseRetries(r) ==
    /\ req[r].pc = "login"
    /\ \E response \in LoginResponses :
         IF response.kind \in {"item", "noItem"}
         THEN LET item == IF response.kind = "item" THEN response.item
                          ELSE UNDEFINED
              IN  /\ agentToken' = CacheLoginItem(agentToken, item)
                  /\ lastLogin' = item
                  /\ req' = [req EXCEPT ![r].pc = "authed",
                                         ![r].token = item,
                                         ![r].loginItem = item]
                  /\ UNCHANGED logins
         ELSE IF req[r].loginCalls < 2
         THEN /\ req' = [req EXCEPT ![r].loginCalls = @ + 1]
              /\ logins' = logins + 1
              /\ UNCHANGED <<agentToken, lastLogin>>
         ELSE /\ req' = [req EXCEPT
                    ![r].pc = "done",
                    ![r].result =
                        [state |-> "threw",
                         error |-> TokenError(
                                     AuthenticateError(CauseOf(response)))]]
              /\ UNCHANGED <<agentToken, lastLogin, logins>>
    /\ UNCHANGED <<agentCredentials>>

\* The login call of invocation r is answered.  On a 2xx body the item is
\* cached and returned to plankaRequest as its token; anything else is
\* rethrown as "Failed to get authentication token: Failed to
\* authenticate agent with Planka: ...".
LoginResponse(r) ==
    /\ req[r].pc = "login"
    /\ \E response \in LoginResponses :
         IF response.kind \in {"item", "noItem"}
         THEN LET item == IF response.kind = "item" THEN response.item
                          ELSE UNDEFINED
              IN  /\ agentToken' = CacheLoginItem(agentToken, item)
                  /\ lastLogin' = item
                  /\ req' = [req EXCEPT ![r].pc = "authed",
                                         ![r].token = item,
                                         ![r].loginItem = item]
         ELSE /\ req' = [req EXCEPT
                    ![r].pc = "done",
                    ![r].result =
                        [state |-> "threw",
                         error |-> TokenError(
                                     AuthenticateError(CauseOf(response)))]]
              /\ UNCHANGED <<agentToken, lastLogin>>
    /\ UNCHANGED <<agentCredentials, logins>>

\* The await of getAuthToken is over: the Authorization header is set to
\* the local token and the fetch of the requested path is issued.
RequestSend(r) ==
    /\ req[r].pc = "authed"
    /\ req' = [req EXCEPT ![r].pc = "sent", ![r].fetches = @ + 1]
    /\ UNCHANGED <<agentCredentials, agentToken, logins, lastLogin>>

\* A plankaRequest that drops the cached token on a 401.
RequestResponseInvalidates(r) ==
    /\ req[r].pc = "sent"
    /\ \E response \in RequestResponses :
         /\ req' = [req EXCEPT
               ![r].pc = "done",
               ![r].answer = response,
               ![r].result =
                   IF response.kind = "ok" THEN [state |-> "returned"]
                   ELSE [state |-> "threw",
                         error |-> RequestError(CauseOf(response))]]
         /\ agentToken' = IF response.kind = "status" /\ response.status = 401
                          THEN NULL ELSE agentToken
    /\ UNCHANGED <<agentCredentials, logins, lastLogin>>

\* The requested call is answered: the body is returned, or the failure
\* is rethrown as "Failed to make Planka request to <url>: ...".
RequestResponse(r) ==
    /\ req[r].pc = "sent"
    /\ \E response \in RequestResponses :
         req' = [req EXCEPT
            ![r].pc = "done",
            ![r].answer = response,
            ![r].result =
                IF response.kind = "ok" THEN [state |-> "returned"]
                ELSE [state |-> "threw",
                      error |-> RequestError(CauseOf(response))]]
    /\ UNCHANGED <<agentCredentials, agentToken, logins, lastLogin>>

\* A process that has not called createBoard, with no admin ID configured.
BoardIdle ==
    /\ BoardInit
    /\ env = [PLANKA_ADMIN_ID |-> UNDEFINED, PLANKA_ADMIN_EMAIL |-> UNDEFINED,
              PLANKA_ADMIN_USERNAME |-> UNDEFINED]

(***************************************************************************)
(* The workflow tool: performWorkflowAction.                               *)
(***************************************************************************)
WorkflowActions ==
    {"start_working", "mark_completed", "move_to_testing", "move_to_done"}

WorkflowComments == {UNDEFINED, "", "note"}

TaskIds == {"t1", "t2"}

\* The arrays of at most MaxWorkflowTasks task IDs.
TaskIdArrays == UNION {[0..(n - 1) -> TaskIds] : n \in 0..MaxWorkflowTasks}

WorkflowActionParams ==
    [action : WorkflowActions, cardId : {"c1"}, comment : WorkflowComments,
     taskIds : {[isUndefined |-> TRUE, ids |-> EmptyArray]}
               \cup {[isUndefined |-> FALSE, ids |-> a] : a \in TaskIdArrays},
     boardId : {UNDEFINED, "b1"}]

\* String.prototype.toLowerCase on the list names in use.
toLowerCase(name) ==
    CASE name = "In Progress" -> "in progress"
      [] name = "IN PROGRESS" -> "in progress"
      [] name = "Testing" -> "testing"
      [] name = "Review" -> "review"
      [] name = "Done" -> "done"
      [] name = "DONE" -> "done"
      [] name = "Backlog" -> "backlog"
      [] OTHER -> name

List(id, name) == [id |-> id, name |-> name]

\* The lists a board may have on the upstream, in the order it returns them.
BoardLists ==
    {ArrayOf(<<>>),
     ArrayOf(<<List("l1", "Backlog")>>),
     ArrayOf(<<List("l1", "Backlog"), List("l2", "In Progress"),
               List("l3", "Review"), List("l4", "Done")>>),
     ArrayOf(<<List("l1", "Testing"), List("l2", "IN PROGRESS"),
               List("l3", "DONE"), List("l4", "review")>>)}

\* What getCard gives: the card with or without a boardId, or an error.
GetCardOutcomes == {"ok", "noBoardId", "reject"}

WorkflowThrow(message) == [state |-> "threw", message |-> message]

WorkflowInit ==
    /\ wPc = "idle"
    /\ wParams = [action |-> NULL]
    /\ wUpstreamLists = EmptyArray
    /\ wBoardLists = EmptyArray
    /\ wTarget = [id |-> NULL]
    /\ wTaskPc = EmptyArray
    /\ wCalls = EmptyArray
    /\ wReturn = [state |-> "pending"]

\* performWorkflowAction(params) is called; getCard is awaited.
WorkflowCall ==
    /\ wPc = "idle"
    /\ wParams' \in WorkflowActionParams
    /\ wUpstreamLists' \in BoardLists
    /\ wPc' = "getCard"
    /\ UNCHANGED <<wBoardLists, wTarget, wTaskPc, wCalls, wReturn>>

\* getCard is over: the board ID is the one given or the card's; getBoard
\* is awaited if there is one.
WorkflowGotCard ==
    /\ wPc = "getCard"
    /\ \E outcome \in GetCardOutcomes :
         LET boardId == IF Truthy(wParams.boardId) THEN wParams.boardId
                        ELSE IF outcome = "ok" THEN "b1" ELSE UNDEFINED
         IN
         /\ wCalls' = ArrayPush(wCalls, [op |-> "getCard",
                                         cardId |-> wParams.cardId,
                                         outcome |-> outcome])
         /\ IF outcome = "reject"
            THEN /\ wPc' = "done"
                 /\ wReturn' = WorkflowThrow("Failed to get card")
            ELSE IF ~Truthy(boardId)
            THEN /\ wPc' = "done"
                 /\ wReturn' = WorkflowThrow("Could not determine board ID")
            ELSE /\ wPc' = "getBoard"
                 /\ UNCHANGED wReturn
    /\ UNCHANGED <<wParams, wUpstreamLists, wBoardLists, wTarget, wTaskPc>>

\* getBoard is over; getLists is awaited.
WorkflowGotBoard ==
    /\ wPc = "getBoard"
    /\ \E outcome \in {"ok", "reject"} :
         /\ wCalls' = ArrayPush(wCalls, [op |-> "getBoard",
                                         outcome |-> outcome])
         /\ IF outcome = "ok"
            THEN wPc' = "getLists" /\ UNCHANGED wReturn
            ELSE /\ wPc' = "done"
                 /\ wReturn' = WorkflowThrow("Failed to get board")
    /\ UNCHANGED <<wParams, wUpstreamLists, wBoardLists, wTarget, wTaskPc>>

\* A switch without the synonym "review" of "testing".
TargetNamesNoSynonym(action) ==
    CASE action = "start_working" -> {"in progress"}
      [] action = "move_to_testing" -> {"testing"}
      [] action = "move_to_done" -> {"done"}
      [] OTHER -> {}

\* The lower-cased names the switch looks for.
TargetNames(action) ==
    CASE action = "start_working" -> {"in progress"}
      [] action = "move_to_testing" -> {"testing", "review"}
      [] action = "move_to_done" -> {"done"}
      [] OTHER -> {}

\* The default comments of the switch.
DefaultComment(action) ==
    CASE action = "start_working" -> "Started working on this card."
      [] action = "move_to_testing" ->
            "Implementation completed and ready for testing."
      [] action = "move_to_done" -> "All work completed and verified."
      [] OTHER -> UNDEFINED

\* getLists is over (it gives [] when its call failed) and the switch
\* runs: mark_completed starts getTask for every task ID, or throws
\* without IDs; the other actions await moveCard to the first list of a
\* target name, or throw without one.
WorkflowGotLists ==
    /\ wPc = "getLists"
    /\ \E outcome \in {"ok", "reject"} :
         LET lists == IF outcome = "ok" THEN wUpstreamLists ELSE EmptyArray
             k == FindIndex(lists,
                    {j \in DOMAIN lists :
                        toLowerCase(lists[j].name)
                            \in TargetNames(wParams.action)})
             ids == wParams.taskIds
         IN
         /\ wCalls' = ArrayPush(wCalls, [op |-> "getLists",
                                         outcome |-> outcome])
         /\ wBoardLists' = lists
         /\ IF wParams.action = "mark_completed"
            THEN IF ~ids.isUndefined /\ ArrayLength(ids.ids) > 0
                 THEN /\ wTaskPc' = [j \in DOMAIN ids.ids |-> "getTask"]
                      /\ wPc' = "tasks"
                      /\ UNCHANGED <<wTarget, wReturn>>
                 ELSE /\ wPc' = "done"
                      /\ wReturn' = WorkflowThrow(
                           "No task IDs provided for mark_completed action")
                      /\ UNCHANGED <<wTarget, wTaskPc>>
            ELSE IF k < 0
                 THEN /\ wPc' = "done"
                      /\ wReturn' = WorkflowThrow("Target list not found")
                      /\ UNCHANGED <<wTarget, wTaskPc>>
                 ELSE /\ wTarget' = lists[k]
                      /\ wPc' = "moveCard"
                      /\ UNCHANGED <<wTaskPc, wReturn>>
    /\ UNCHANGED <<wParams, wUpstreamLists>>

\* Promise.all rejects with the first rejection; the other callbacks go on.
TasksSettle(taskPc) ==
    IF wPc # "tasks" THEN [pc |-> wPc, return |-> wReturn]
    ELSE IF \E j \in DOMAIN taskPc : taskPc[j] = "failed"
    THEN [pc |-> "done", return |-> WorkflowThrow("Failed to update task")]
    ELSE IF \A j \in DOMAIN taskPc : taskPc[j] = "done"
    THEN IF Truthy(wParams.comment)
         THEN [pc |-> "taskComment", return |-> wReturn]
         ELSE [pc |-> "done",
               return |-> [state |-> "returned", success |-> TRUE,
                           action |-> wParams.action,
                           cardId |-> wParams.cardId,
                           tasksCompleted |-> ArrayLength(taskPc)]]
    ELSE [pc |-> wPc, return |-> wReturn]

\* The update mark_completed sends for a task: its name and position.
TaskUpdate(task) == [name |-> task.name, position |-> task.position]

\* getTask of the j-th task ID is over; updateTask is awaited with the
\* task's name and position.
WorkflowGotTask(j) ==
    /\ j \in DOMAIN wTaskPc
    /\ wTaskPc[j] = "getTask"
    /\ \E outcome \in {"ok", "reject"} :
         LET taskPc == ArraySet(wTaskPc, j,
                          IF outcome = "ok" THEN "updateTask" ELSE "failed")
             settled == TasksSettle(taskPc)
         IN
         /\ wCalls' = ArrayPush(wCalls, [op |-> "getTask",
                                         taskId |-> wParams.taskIds.ids[j],
                                         outcome |-> outcome])
         /\ wTaskPc' = taskPc
         /\ wPc' = settled.pc
         /\ wReturn' = settled.return
    /\ UNCHANGED <<wParams, wUpstreamLists, wBoardLists, wTarget>>

\* updateTask of the j-th task ID is over; when it was the last one the
\* comment is created if one was given, else the result is returned.
WorkflowUpdatedTask(j) ==
    /\ j \in DOMAIN wTaskPc
    /\ wTaskPc[j] = "updateTask"
    /\ \E outcome \in {"ok", "reject"} :
         LET taskPc == ArraySet(wTaskPc, j,
                          IF outcome = "ok" THEN "done" ELSE "failed")
             settled == TasksSettle(taskPc)
             task == [name |-> "task", position |-> 65535]
         IN
         /\ wCalls' = ArrayPush(wCalls, [op |-> "updateTask",
                                         taskId |-> wParams.taskIds.ids[j],
                                         body |-> TaskUpdate(task),
                                         outcome |-> outcome])
         /\ wTaskPc' = taskPc
         /\ wPc' = settled.pc
         /\ wReturn' = settled.return
    /\ UNCHANGED <<wParams, wUpstreamLists, wBoardLists, wTarget>>

\* createComment of mark_completed is over.
WorkflowTaskCommented ==
    /\ wPc = "taskComment"
    /\ \E outcome \in {"ok", "reject"} :
         /\ wCalls' = ArrayPush(wCalls, [op |-> "createComment",
                                         text |-> wParams.comment,
                                         outcome |-> outcome])
         /\ wReturn' = IF outcome = "ok"
                       THEN [state |-> "returned", success |-> TRUE,
                             action |-> wParams.action,
                             cardId |-> wParams.cardId,
                             tasksCompleted |-> ArrayLength(wTaskPc)]
                       ELSE WorkflowThrow("Failed to create comment")
    /\ wPc' = "done"
    /\ UNCHANGED <<wParams, wUpstreamLists, wBoardLists, wTarget, wTaskPc>>

\* moveCard is over; createComment is awaited.
WorkflowMoved ==
    /\ wPc = "moveCard"
    /\ \E outcome \in {"ok", "reject"} :
         /\ wCalls' = ArrayPush(wCalls, [op |-> "moveCard",
                                         cardId |-> wParams.cardId,
                                         listId |-> wTarget.id,
                                         outcome |-> outcome])
         /\ IF outcome = "ok"
            THEN wPc' = "comment" /\ UNCHANGED wReturn
            ELSE /\ wPc' = "done"
                 /\ wReturn' = WorkflowThrow("Failed to move card")
    /\ UNCHANGED <<wParams, wUpstreamLists, wBoardLists, wTarget, wTaskPc>>

\* createComment is over; the result is returned.
WorkflowCommented ==
    /\ wPc = "comment"
    /\ \E outcome \in {"ok", "reject"} :
         /\ wCalls' = ArrayPush(wCalls,
               [op |-> "createComment",
                text |-> Or(Or(wParams.comment,
                               DefaultComment(wParams.action)), ""),
                outcome |-> outcome])
         /\ wReturn' = IF outcome = "ok"
                       THEN [state |-> "returned", success |-> TRUE,
                             action |-> wParams.action,
                             cardId |-> wParams.cardId,
                             listId |-> wTarget.id,
                             listName |-> wTarget.name]
                       ELSE WorkflowThrow("Failed to create comment")
    /\ wPc' = "done"
    /\ UNCHANGED <<wParams, wUpstreamLists, wBoardLists, wTarget, wTaskPc>>

\* The caller has the outcome and no callback is left.
WorkflowDone ==
    /\ wPc = "done"
    /\ \A j \in DOMAIN wTaskPc : wTaskPc[j] \in {"done", "failed"}
    /\ wPc' = "idle"
    /\ wParams' = [action |-> NULL]
    /\ wUpstreamLists' = EmptyArray
    /\ wBoardLists' = EmptyArray
    /\ wTarget' = [id |-> NULL]
    /\ wTaskPc' = EmptyArray
    /\ wCalls' = EmptyArray
    /\ wReturn' = [state |-> "pending"]

(***************************************************************************)
(* The resource operations at the boundary of the operation modules: the   *)
(* collection reads and the operations on one resource.  An operation is   *)
(* a function of the upstream's answers to the calls it makes.             *)
(***************************************************************************)
Item(id, parent, type) == [id |-> id, parent |-> parent, type |-> type]

\* The collections a body may carry: two members of the parent asked for
\* around one of another parent; of the two, one is a comment action.
ItemArrays ==
    {EmptyArray,
     ArrayOf(<<Item("i1", "p2", "commentCard")>>),
     ArrayOf(<<Item("i1", "p1", "commentCard"), Item("i2", "p2", "other"),
               Item("i3", "p1", "other")>>)}

\* What plankaRequest gives a read: a body with the collection where the
\* operation looks for it, a body that is the array itself, a body
\* without the collection or with something else in its place, or an
\* error (the call was rejected, or no token could be had).
ReadAnswers ==
    {[kind |-> "ok", shape |-> sh, items |-> a] :
        sh \in {"enveloped", "bare"}, a \in ItemArrays}
    \cup {[kind |-> "ok", shape |-> sh, items |-> EmptyArray] :
            sh \in {"absent", "notArray"}}
    \cup {[kind |-> "reject", shape |-> "none", items |-> EmptyArray],
          [kind |-> "authFailure", shape |-> "none", items |-> EmptyArray]}

Returned(value) == [state |-> "returned", value |-> value]

Threw(message) == [state |-> "threw", message |-> message]

\* Array.prototype.filter, keeping the items of the parent asked for.
FilterByParent(items, parent) ==
    ArrayOf(SelectSeq([k \in 1..ArrayLength(items) |-> items[k - 1]],
                      LAMBDA item : item.parent = parent))

\* Array.prototype.filter, keeping the comment actions.
FilterComments(items) ==
    ArrayOf(SelectSeq([k \in 1..ArrayLength(items) |-> items[k - 1]],
                      LAMBDA item : item.type = "commentCard"))

\* A getLists whose catch rethrows.
getListsRethrows(answer) ==
    IF answer.kind # "ok" THEN Threw(<<"Failed to get lists: ", answer.kind>>)
    ELSE IF answer.shape = "enveloped" THEN Returned(answer.items)
    ELSE Returned(EmptyArray)

\* getLists: response.included.lists if it is an array, else []; [] on
\* any error.
getLists(answer) ==
    IF answer.kind # "ok" THEN Returned(EmptyArray)
    ELSE IF answer.shape = "enveloped" THEN Returned(answer.items)
    ELSE Returned(EmptyArray)

\* getLabels: response.included.labels if it is an array, else [].
getLabels(answer) ==
    IF answer.kind # "ok" THEN Returned(EmptyArray)
    ELSE IF answer.shape = "enveloped" THEN Returned(answer.items)
    ELSE Returned(EmptyArray)

\* getBoards: the boards of the project among response.included.boards.
getBoards(projectId, answer) ==
    IF answer.kind # "ok" THEN Returned(EmptyArray)
    ELSE IF answer.shape = "enveloped"
    THEN Returned(FilterByParent(answer.items, projectId))
    ELSE Returned(EmptyArray)

\* getCards: for each board of GET /api/projects, the cards of the list
\* among the board's included.cards; the first non-empty selection is
\* returned.  A board body without cards is passed over; any error gives
\* [].
getCards(listId, projects, board) ==
    IF projects.kind # "ok" \/ projects.shape # "enveloped"
    THEN Returned(EmptyArray)
    ELSE IF ArrayLength(projects.items) = 0 THEN Returned(EmptyArray)
    ELSE IF board.kind # "ok" THEN Returned(EmptyArray)
    ELSE IF board.shape # "enveloped" THEN Returned(EmptyArray)
    ELSE Returned(FilterByParent(board.items, listId))

\* getTasks: the items of the parsed response; [] on any error.
getTasks(answer) ==
    IF answer.kind = "ok" /\ answer.shape = "enveloped"
    THEN Returned(answer.items)
    ELSE Returned(EmptyArray)

\* getComments: the comment actions among the items, of the envelope or
\* of a bare array; [] on any error.
getComments(answer) ==
    IF answer.kind = "ok" /\ answer.shape \in {"enveloped", "bare"}
    THEN Returned(FilterComments(answer.items))
    ELSE Returned(EmptyArray)

\* getBoardMemberships: the items, of the envelope or of a bare array.
getBoardMemberships(answer) ==
    IF answer.kind = "ok" /\ answer.shape \in {"enveloped", "bare"}
    THEN Returned(answer.items)
    ELSE Returned(EmptyArray)

CollectionReads == {"getLists", "getLabels", "getBoards", "getCards",
                    "getTasks", "getComments", "getBoardMemberships"}

\* The operations on one resource: those that wrap the error of
\* plankaRequest or of the schema in "Failed to ...", and those without a
\* catch.
WrappingOperations == {"createList", "createLabel", "createComment",
                       "moveCard", "updateTask", "createBoardMembership"}
BareOperations == {"getCard", "getBoard", "updateCard", "deleteCard",
                   "updateBoard", "deleteBoard"}

\* What plankaRequest gives such an operation: a body with the item, a
\* body the schema rejects, or an error.
ItemAnswers == {[kind |-> k] : k \in {"ok", "malformed", "reject",
                                      "authFailure"}}

\* An operation whose catch gives null.
WrappedSwallows(op, answer) ==
    IF answer.kind = "ok" THEN Returned([id |-> "i1"])
    ELSE Returned([id |-> NULL])

\* try { plankaRequest; parse; return item } catch { throw new Error(
\* `Failed to ...: ${message}`) }
Wrapped(op, answer) ==
    IF answer.kind = "ok" THEN Returned([id |-> "i1"])
    ELSE Threw(<<"Failed to ", op, ": ", answer.kind>>)

\* plankaRequest; parse; return item, with no catch.  deleteCard and
\* deleteBoard do not parse the body.
Bare(op, answer) ==
    IF answer.kind = "ok"
        \/ (op \in {"deleteCard", "deleteBoard"} /\ answer.kind = "malformed")
    THEN Returned([id |-> "i1"])
    ELSE Threw(<<answer.kind>>)

ReadInit ==
    /\ rOp = NULL
    /\ rFirst = [kind |-> "none"]
    /\ rSecond = [kind |-> "none"]
    /\ rResult = [state |-> "pending"]

\* A collection read is called and is over; first and second are the
\* upstream's answers to its calls (only getCards makes a second one).
ReadCollection ==
    /\ rOp = NULL
    /\ \E op \in CollectionReads, first \in ReadAnswers :
       \E second \in IF op = "getCards" /\ first.kind = "ok"
                        /\ first.shape = "enveloped"
                        /\ ArrayLength(first.items) > 0
                     THEN ReadAnswers ELSE {[kind |-> "none"]} :
         /\ rOp' = op
         /\ rFirst' = first
         /\ rSecond' = second
         /\ rResult' =
              CASE op = "getLists" -> getLists(first)
                [] op = "getLabels" -> getLabels(first)
                [] op = "getBoards" -> getBoards("p1", first)
                [] op = "getCards" -> getCards("p1", first, second)
                [] op = "getTasks" -> getTasks(first)
                [] op = "getComments" -> getComments(first)
                [] op = "getBoardMemberships" -> getBoardMemberships(first)

\* An operation on one resource is called and is over.
OperateOnItem ==
    /\ rOp = NULL
    /\ \E op \in WrappingOperations \cup BareOperations,
          answer \in ItemAnswers :
         /\ rOp' = op
         /\ rFirst' = answer
         /\ rSecond' = [kind |-> "none"]
         /\ rResult' = IF op \in WrappingOperations
                       THEN Wrapped(op, answer) ELSE Bare(op, answer)

\* The caller has the outcome.
ReadDone ==
    /\ rOp # NULL
    /\ rOp' = NULL
    /\ rFirst' = [kind |-> "none"]
    /\ rSecond' = [kind |-> "none"]
    /\ rResult' = [state |-> "pending"]

(***************************************************************************)
(* The board summary tool: getBoardSummary reads the board, its lists,     *)
(* the cards of every list and, when asked, the tasks of every card, and   *)
(* computes the completion percentages.  The upstream's lists are an       *)
(* array of [name, cards, tasks]: the number of cards getCards returns     *)
(* for the list and the array getTasks returns for each of its cards.      *)
(***************************************************************************)

SummaryListNames == {"Backlog", "Done", "DONE"}

\* getTasks' answer with `total` tasks of which the first `completed` are
\* completed.
TaskDetails(total, completed) ==
    [k \in 0..(total - 1) |-> [isCompleted |-> k < completed]]

TaskDetailArrays ==
    {TaskDetails(t, c) : t \in 0..MaxSummaryTasks, c \in 0..MaxSummaryTasks}

SummaryLists ==
    LET list == [name : SummaryListNames, cards : 0..MaxSummaryCards,
                 tasks : TaskDetailArrays]
    IN  {EmptyArray} \cup {ArrayOf(<<a>>) : a \in list}
            \cup {ArrayOf(<<a, b>>) : a \in list, b \in list}

\* Math.round(numerator / denominator * 100) for a positive denominator:
\* the nearest integer, halves upwards.
MathRoundPercent(numerator, denominator) ==
    (200 * numerator + denominator) \div (2 * denominator)

CompletionPercentageFloor(numerator, denominator) ==
    IF denominator > 0 THEN (100 * numerator) \div denominator ELSE 0

\* total > 0 ? Math.round((completed / total) * 100) : 0
CompletionPercentage(numerator, denominator) ==
    IF denominator > 0 THEN MathRoundPercent(numerator, denominator) ELSE 0

\* One card of the summary: its tasks are undefined unless task details
\* were asked for.
CardWithDetails(includeTaskDetails, tasks) ==
    LET taskDetails == IF includeTaskDetails THEN tasks ELSE EmptyArray
        completedTasks ==
            Cardinality({k \in DOMAIN taskDetails :
                             taskDetails[k].isCompleted})
        totalTasks == ArrayLength(taskDetails)
    IN  [tasks |->
            IF includeTaskDetails
            THEN [defined |-> TRUE,
                  total |-> totalTasks,
                  completed |-> completedTasks,
                  completionPercentage |->
                      CompletionPercentage(completedTasks, totalTasks)]
            ELSE [defined |-> FALSE]]

ListWithCards(includeTaskDetails, list) ==
    LET cardsWithDetails ==
            [k \in 0..(list.cards - 1) |->
                CardWithDetails(includeTaskDetails, list.tasks)]
    IN  [name |-> list.name,
         cards |-> cardsWithDetails,
         cardCount |-> ArrayLength(cardsWithDetails)]

RECURSIVE SumCardCounts(_, _)
\* listsWithCards.reduce((sum, list) => sum + list.cardCount, 0), from
\* index k on.
SumCardCounts(listsWithCards, k) ==
    IF k >= ArrayLength(listsWithCards) THEN 0
    ELSE listsWithCards[k].cardCount + SumCardCounts(listsWithCards, k + 1)

\* listsWithCards.find(list => list.name.toLowerCase() === name)?.cardCount
\* || 0
CardCountOf(listsWithCards, name) ==
    LET found == FindIndex(listsWithCards,
                     {k \in DOMAIN listsWithCards :
                          toLowerCase(listsWithCards[k].name) = name})
    IN  IF found = -1 THEN 0 ELSE listsWithCards[found].cardCount

SummaryOf(includeTaskDetails, allLists) ==
    LET listsWithCards ==
            [k \in DOMAIN allLists |->
                ListWithCards(includeTaskDetails, allLists[k])]
        totalCards == SumCardCounts(listsWithCards, 0)
        doneCount == CardCountOf(listsWithCards, "done")
    IN  [lists |-> listsWithCards,
         stats |-> [totalCards |-> totalCards,
                    backlogCount |-> CardCountOf(listsWithCards, "backlog"),
                    doneCount |-> doneCount,
                    completionPercentage |->
                        CompletionPercentage(doneCount, totalCards)]]

SummaryInit ==
    /\ sPc = "idle"
    /\ sInclude = FALSE
    /\ sBoard = "ok"
    /\ sLists = EmptyArray
    /\ sResult = [state |-> "pending"]

\* getBoardSummary({boardId, includeTaskDetails}) is called.
SummaryCall ==
    /\ sPc = "idle"
    /\ \E include \in BOOLEAN, board \in {"ok", "reject"},
          lists \in SummaryLists :
           /\ sInclude' = include
           /\ sBoard' = board
           /\ sLists' = lists
    /\ sPc' = "called"
    /\ sResult' = [state |-> "pending"]

\* getBoard threw: the catch logs the error and rethrows it.
SummaryThrow ==
    /\ sPc = "called"
    /\ sBoard = "reject"
    /\ sPc' = "done"
    /\ sResult' = [state |-> "threw"]
    /\ UNCHANGED <<sInclude, sBoard, sLists>>

\* The reads succeeded: the summary is computed and returned.
SummaryReturn ==
    /\ sPc = "called"
    /\ sBoard = "ok"
    /\ sPc' = "done"
    /\ sResult' = [state |-> "returned",
                   value |-> SummaryOf(sInclude, sLists)]
    /\ UNCHANGED <<sInclude, sBoard, sLists>>

\* The caller has the result; the next call starts afresh.
SummaryDone ==
    /\ sPc = "done"
    /\ sPc' = "idle"
    /\ sInclude' = FALSE
    /\ sBoard' = "ok"
    /\ sLists' = EmptyArray
    /\ sResult' = [state |-> "pending"]

(***************************************************************************)
(* Label creation: createLabel posts the options it was given.             *)
(* CreateLabelSchema describes the palette, and createLabel's parameter    *)
(* type is inferred from it, but createLabel never parses its options.     *)
(***************************************************************************)

VALID_LABEL_COLORS ==
    {"berry-red", "pumpkin-orange", "lagoon-blue", "pink-tulip", "light-mud",
     "orange-peel", "bright-moss", "antique-blue", "dark-granite",
     "lagune-blue", "sunny-grass", "morning-sky", "light-orange",
     "midnight-blue", "tank-green", "gun-metal", "wet-moss", "red-burgundy",
     "light-concrete", "apricot-red", "desert-sand", "navy-blue",
     "egg-yellow", "coral-green", "light-cocoa"}

\* The colors a caller may pass: createBoard passes its colors `as any`.
LabelColors == VALID_LABEL_COLORS \cup {"purple", ""}

LabelNames == {"Bug", "Urgent"}

LabelInit ==
    /\ lPc = "idle"
    /\ lOptions = [name |-> "Bug", color |-> "berry-red"]
    /\ lAnswer = "ok"
    /\ lCalls = EmptyArray
    /\ lResult = [state |-> "pending"]

\* createLabel(options) is called; the try block starts with the request.
LabelCall ==
    /\ lPc = "idle"
    /\ \E name \in LabelNames, color \in LabelColors :
           lOptions' = [name |-> name, color |-> color]
    /\ \E answer \in UpstreamOutcomes : lAnswer' = answer
    /\ lPc' = "requesting"
    /\ lCalls' = EmptyArray
    /\ lResult' = [state |-> "pending"]

\* plankaRequest POSTs the name and the color as given; the response is
\* parsed and its item returned, or the failure is wrapped.
LabelRequest ==
    /\ lPc = "requesting"
    /\ lCalls' = ArrayPush(lCalls,
                     [method |-> "POST", body |-> lOptions])
    /\ lResult' =
           IF lAnswer = "ok"
           THEN [state |-> "returned",
                 value |-> [name |-> lOptions.name,
                            color |-> lOptions.color]]
           ELSE [state |-> "threw",
                 message |-> <<"Failed to create label: ", lAnswer>>]
    /\ lPc' = "done"
    /\ UNCHANGED <<lOptions, lAnswer>>

\* The caller has the result; the next call starts afresh.
LabelDone ==
    /\ lPc = "done"
    /\ lPc' = "idle"
    /\ lOptions' = [name |-> "Bug", color |-> "berry-red"]
    /\ lAnswer' = "ok"
    /\ lCalls' = EmptyArray
    /\ lResult' = [state |-> "pending"]

(***************************************************************************)
(* The lookups by scan: getTask and getComment list the projects, fetch    *)
(* each board of the listing in turn and, for getComment, the actions of   *)
(* each card of the board, until an item with the wanted id is found.      *)
(* A response of an unexpected shape skips the board or the card; a        *)
(* request that throws ends the scan.                                      *)
(***************************************************************************)

ScanOperations == {"getTask", "getComment"}

ScanIds == {"x1", "x2"}

\* The answers to GET /api/cards/:id/actions.
ScanCards ==
    {[answer |-> "reject", items |-> EmptyArray],
     [answer |-> "malformed", items |-> EmptyArray],
     [answer |-> "ok", items |-> EmptyArray],
     [answer |-> "ok",
      items |-> ArrayOf(<<[id |-> "x1", type |-> "moveCard"],
                          [id |-> "x2", type |-> "commentCard"]>>)]}

ScanCardArrays ==
    {EmptyArray} \cup {ArrayOf(<<a>>) : a \in ScanCards}
        \cup {ArrayOf(<<a, b>>) : a \in ScanCards, b \in ScanCards}

ScanTaskArrays ==
    {EmptyArray, ArrayOf(<<[id |-> "x1"]>>),
     ArrayOf(<<[id |-> "x2"], [id |-> "x1"]>>)}

\* The boards of the projects listing, each with the answer to
\* GET /api/boards/:id; "noId" is an entry of the listing without an id.
ScanBoardsOf(op) ==
    LET contents ==
            IF op = "getTask"
            THEN {[answer |-> "ok", tasks |-> t, cards |-> EmptyArray] :
                      t \in ScanTaskArrays}
            ELSE {[answer |-> "ok", tasks |-> EmptyArray, cards |-> c] :
                      c \in ScanCardArrays}
        board == contents \cup
                    {[answer |-> a, tasks |-> EmptyArray,
                      cards |-> EmptyArray] :
                         a \in {"noId", "reject", "malformed"}}
    IN  UNION {[0..(n - 1) -> board] : n \in 0..MaxScanBoards}

\* tasks.find(task => task.id === id)
FindTask(tasks, id) ==
    FindIndex(tasks, {k \in DOMAIN tasks : tasks[k].id = id})

\* actions.find(action => action.id === id && action.type === "commentCard")
FindComment(actions, id) ==
    FindIndex(actions, {k \in DOMAIN actions :
                            /\ actions[k].id = id
                            /\ actions[k].type = "commentCard"})

ScanFailedTo(op) ==
    IF op = "getTask" THEN "Failed to get task: "
    ELSE "Failed to get comment: "

ScanNotFound(op) ==
    IF op = "getTask" THEN "Task not found: " ELSE "Comment not found: "

\* What the catch around the scan throws.
ScanThrew(op, message) ==
    [state |-> "threw", message |-> <<ScanFailedTo(op)>> \o message]

ScanInit ==
    /\ scPc = "idle"
    /\ scOp = "getTask"
    /\ scId = "x1"
    /\ scProjects = "ok"
    /\ scBoards = EmptyArray
    /\ scBoard = 0
    /\ scCard = 0
    /\ scFetched = {}
    /\ scResult = [state |-> "pending"]

\* getTask(id) or getComment(id) is called and requests /api/projects.
ScanCall ==
    /\ scPc = "idle"
    /\ \E op \in ScanOperations :
           /\ scOp' = op
           /\ \E boards \in ScanBoardsOf(op) : scBoards' = boards
    /\ \E id \in ScanIds : scId' = id
    /\ \E projects \in UpstreamOutcomes : scProjects' = projects
    /\ scPc' = "projects"
    /\ scBoard' = 0
    /\ scCard' = 0
    /\ scFetched' = {}
    /\ scResult' = [state |-> "pending"]

\* The projects listing arrived, or the request threw, or the listing has
\* no array of boards.
ScanGotProjects ==
    /\ scPc = "projects"
    /\ CASE scProjects = "reject" ->
                /\ scResult' = ScanThrew(scOp,
                       <<"Failed to make Planka request to ",
                         "/api/projects">>)
                /\ scPc' = "done"
         [] scProjects = "malformed" ->
                /\ scResult' = ScanThrew(scOp, <<"No boards found">>)
                /\ scPc' = "done"
         [] OTHER ->
                /\ scResult' = scResult
                /\ scPc' = "board"
    /\ UNCHANGED <<scOp, scId, scProjects, scBoards, scBoard, scCard,
                   scFetched>>

ScanNextBoardFirstOnly ==
    /\ scPc = "board"
    /\ IF scBoard >= 1 \/ scBoard >= ArrayLength(scBoards)
       THEN /\ scResult' = ScanThrew(scOp, <<ScanNotFound(scOp), scId>>)
            /\ scPc' = "done"
            /\ UNCHANGED <<scBoard, scCard, scFetched>>
       ELSE LET board == scBoards[scBoard]
            IN  IF board.answer = "noId"
                THEN /\ scBoard' = scBoard + 1
                     /\ UNCHANGED <<scPc, scCard, scFetched, scResult>>
                ELSE
                /\ scFetched' = scFetched \cup {<<"boards", scBoard>>}
                /\ CASE board.answer = "reject" ->
                            /\ scResult' = ScanThrew(scOp,
                                   <<"Failed to make Planka request to ",
                                     "/api/boards/">>)
                            /\ scPc' = "done"
                            /\ UNCHANGED <<scBoard, scCard>>
                     [] board.answer = "malformed" ->
                            /\ scBoard' = scBoard + 1
                            /\ UNCHANGED <<scPc, scCard, scResult>>
                     [] board.answer = "ok" /\ scOp = "getTask" ->
                            LET found == FindTask(board.tasks, scId)
                            IN  IF found # -1
                                THEN /\ scResult' =
                                            [state |-> "returned",
                                             value |-> board.tasks[found]]
                                     /\ scPc' = "done"
                                     /\ UNCHANGED <<scBoard, scCard>>
                                ELSE /\ scBoard' = scBoard + 1
                                     /\ UNCHANGED <<scPc, scCard, scResult>>
                     [] OTHER ->
                            /\ scCard' = 0
                            /\ scPc' = "card"
                            /\ UNCHANGED <<scBoard, scResult>>
    /\ UNCHANGED <<scOp, scId, scProjects, scBoards>>

\* One turn of the loop over the boards: the board is skipped, fetched and
\* searched, or the loop is over and the not-found error is thrown.
ScanNextBoard ==
    /\ scPc = "board"
    /\ IF scBoard >= ArrayLength(scBoards)
       THEN /\ scResult' = ScanThrew(scOp, <<ScanNotFound(scOp), scId>>)
            /\ scPc' = "done"
            /\ UNCHANGED <<scBoard, scCard, scFetched>>
       ELSE LET board == scBoards[scBoard]
            IN  IF board.answer = "noId"
                THEN /\ scBoard' = scBoard + 1
                     /\ UNCHANGED <<scPc, scCard, scFetched, scResult>>
                ELSE
                /\ scFetched' = scFetched \cup {<<"boards", scBoard>>}
                /\ CASE board.answer = "reject" ->
                            /\ scResult' = ScanThrew(scOp,
                                   <<"Failed to make Planka request to ",
                                     "/api/boards/">>)
                            /\ scPc' = "done"
                            /\ UNCHANGED <<scBoard, scCard>>
                     [] board.answer = "malformed" ->
                            /\ scBoard' = scBoard + 1
                            /\ UNCHANGED <<scPc, scCard, scResult>>
                     [] board.answer = "ok" /\ scOp = "getTask" ->
                            LET found == FindTask(board.tasks, scId)
                            IN  IF found # -1
                                THEN /\ scResult' =
                                            [state |-> "returned",
                                             value |-> board.tasks[found]]
                                     /\ scPc' = "done"
                                     /\ UNCHANGED <<scBoard, scCard>>
                                ELSE /\ scBoard' = scBoard + 1
                                     /\ UNCHANGED <<scPc, scCard, scResult>>
                     [] OTHER ->
                            /\ scCard' = 0
                            /\ scPc' = "card"
                            /\ UNCHANGED <<scBoard, scResult>>
    /\ UNCHANGED <<scOp, scId, scProjects, scBoards>>

\* One turn of getComment's loop over the cards of a board: the actions of
\* the card are fetched and searched, or the loop is over and the scan
\* moves to the next board.
ScanNextCard ==
    /\ scPc = "card"
    /\ LET cards == scBoards[scBoard].cards
       IN  IF scCard >= ArrayLength(cards)
           THEN /\ scBoard' = scBoard + 1
                /\ scPc' = "board"
                /\ UNCHANGED <<scCard, scFetched, scResult>>
           ELSE
           /\ scFetched' = scFetched \cup {<<"cards", scBoard, scCard>>}
           /\ CASE cards[scCard].answer = "reject" ->
                       /\ scResult' = ScanThrew(scOp,
                              <<"Failed to make Planka request to ",
                                "/api/cards/">>)
                       /\ scPc' = "done"
                       /\ UNCHANGED <<scBoard, scCard>>
                [] cards[scCard].answer = "malformed" ->
                       /\ scCard' = scCard + 1
                       /\ UNCHANGED <<scPc, scBoard, scResult>>
                [] OTHER ->
                       LET found == FindComment(cards[scCard].items, scId)
                       IN  IF found # -1
                           THEN /\ scResult' =
                                       [state |-> "returned",
                                        value |-> cards[scCard].items[found]]
                                /\ scPc' = "done"
                                /\ UNCHANGED <<scBoard, scCard>>
                           ELSE /\ scCard' = scCard + 1
                                /\ UNCHANGED <<scPc, scBoard, scResult>>
    /\ UNCHANGED <<scOp, scId, scProjects, scBoards>>

\* The caller has the result; the next call starts afresh.
ScanDone ==
    /\ scPc = "done"
    /\ scPc' = "idle"
    /\ scOp' = "getTask"
    /\ scId' = "x1"
    /\ scProjects' = "ok"
    /\ scBoards' = EmptyArray
    /\ scBoard' = 0
    /\ scCard' = 0
    /\ scFetched' = {}
    /\ scResult' = [state |-> "pending"]

(***************************************************************************)
(* The consolidated tools: each handler switches on the action, tests the  *)
(* arguments the action needs, and calls one operation.  An argument is    *)
(* "undefined" (not given), "empty" (the empty string, 0 or the empty      *)
(* array) or "value".                                                      *)
(***************************************************************************)

ArgumentValues == {"undefined", "empty", "value"}

\* The cases of the handlers: the tests of the case's `if` in order, as
\* <<argument, test>>, the pieces of the message it throws, and the
\* operation it calls.  The tests are "falsy" for !args.x on a string,
\* "undefined" for args.x === undefined, "absent" for !args.x on an array
\* and "empty" for !args.x || args.x.length === 0.
ToolActions == {
    [tool |-> "mcp_kanban_project_board_manager",
     action |-> "get_projects",
     checks |-> << >>,
     message |-> << >>,
     op |-> "projects.getProjects"],
    [tool |-> "mcp_kanban_project_board_manager",
     action |-> "get_project",
     checks |-> <<<<"id", "falsy">>>>,
     message |-> <<"id", " is required for ", "get_project", " action">>,
     op |-> "projects.getProject"],
    [tool |-> "mcp_kanban_project_board_manager",
     action |-> "get_boards",
     checks |-> <<<<"projectId", "falsy">>>>,
     message |-> <<"projectId", " is required for ", "get_boards",
         " action">>,
     op |-> "boards.getBoards"],
    [tool |-> "mcp_kanban_project_board_manager",
     action |-> "create_board",
     checks |-> <<<<"projectId", "falsy">>, <<"name", "falsy">>,
         <<"position", "undefined">>>>,
     message |-> <<"projectId", ", ", "name", ", and ", "position",
         " are required for ", "create_board", " action">>,
     op |-> "boards.createBoard"],
    [tool |-> "mcp_kanban_project_board_manager",
     action |-> "get_board",
     checks |-> <<<<"id", "falsy">>>>,
     message |-> <<"id", " is required for ", "get_board", " action">>,
     op |-> "boards.getBoard"],
    [tool |-> "mcp_kanban_project_board_manager",
     action |-> "update_board",
     checks |-> <<<<"id", "falsy">>, <<"name", "falsy">>, <<"position",
         "undefined">>>>,
     message |-> <<"id", ", ", "name", ", and ", "position",
         " are required for ", "update_board", " action">>,
     op |-> "boards.updateBoard"],
    [tool |-> "mcp_kanban_project_board_manager",
     action |-> "delete_board",
     checks |-> <<<<"id", "falsy">>>>,
     message |-> <<"id", " is required for ", "delete_board", " action">>,
     op |-> "boards.deleteBoard"],
    [tool |-> "mcp_kanban_project_board_manager",
     action |-> "get_board_summary",
     checks |-> <<<<"boardId", "falsy">>>>,
     message |-> <<"boardId", " is required for ", "get_board_summary",
         " action">>,
     op |-> "getBoardSummary"],
    [tool |-> "mcp_kanban_list_manager",
     action |-> "get_all",
     checks |-> <<<<"boardId", "falsy">>>>,
     message |-> <<"boardId", " is required for ", "get_all", " action">>,
     op |-> "lists.getLists"],
    [tool |-> "mcp_kanban_list_manager",
     action |-> "create",
     checks |-> <<<<"boardId", "falsy">>, <<"name", "falsy">>, <<"position",
         "undefined">>>>,
     message |-> <<"boardId", ", ", "name", ", and ", "position",
         " are required for ", "create", " action">>,
     op |-> "lists.createList"],
    [tool |-> "mcp_kanban_list_manager",
     action |-> "get_one",
     checks |-> <<<<"id", "falsy">>>>,
     message |-> <<"id", " is required for ", "get_one", " action">>,
     op |-> "lists.getList"],
    [tool |-> "mcp_kanban_list_manager",
     action |-> "update",
     checks |-> <<<<"id", "falsy">>, <<"name", "falsy">>, <<"position",
         "undefined">>>>,
     message |-> <<"id", ", ", "name", ", and ", "position",
         " are required for ", "update", " action">>,
     op |-> "lists.updateList"],
    [tool |-> "mcp_kanban_list_manager",
     action |-> "delete",
     checks |-> <<<<"id", "falsy">>>>,
     message |-> <<"id", " is required for ", "delete", " action">>,
     op |-> "lists.deleteList"],
    [tool |-> "mcp_kanban_card_manager",
     action |-> "get_all",
     checks |-> <<<<"listId", "falsy">>>>,
     message |-> <<"listId", " is required for ", "get_all", " action">>,
     op |-> "cards.getCards"],
    [tool |-> "mcp_kanban_card_manager",
     action |-> "create",
     checks |-> <<<<"listId", "falsy">>, <<"name", "falsy">>>>,
     message |-> <<"listId", " and ", "name", " are required for ", "create",
         " action">>,
     op |-> "cards.createCard"],
    [tool |-> "mcp_kanban_card_manager",
     action |-> "get_one",
     checks |-> <<<<"cardIdForOps", "falsy">>>>,
     message |-> <<"id (or cardId)", " is required for ", "get_one",
         " action">>,
     op |-> "cards.getCard"],
    [tool |-> "mcp_kanban_card_manager",
     action |-> "update",
     checks |-> <<<<"cardIdForOps", "falsy">>>>,
     message |-> <<"id (or cardId)", " is required for ", "update",
         " action">>,
     op |-> "cards.updateCard"],
    [tool |-> "mcp_kanban_card_manager",
     action |-> "move",
     checks |-> <<<<"cardIdForOps", "falsy">>, <<"listId", "falsy">>>>,
     message |-> <<"id (or cardId)", " and ", "listId", " are required for ",
         "move", " action">>,
     op |-> "cards.moveCard"],
    [tool |-> "mcp_kanban_card_manager",
     action |-> "duplicate",
     checks |-> <<<<"cardIdForOps", "falsy">>>>,
     message |-> <<"id (or cardId)", " is required for ", "duplicate",
         " action">>,
     op |-> "cards.duplicateCard"],
    [tool |-> "mcp_kanban_card_manager",
     action |-> "delete",
     checks |-> <<<<"cardIdForOps", "falsy">>>>,
     message |-> <<"id (or cardId)", " is required for ", "delete",
         " action">>,
     op |-> "cards.deleteCard"],
    [tool |-> "mcp_kanban_card_manager",
     action |-> "create_with_tasks",
     checks |-> <<<<"listId", "falsy">>, <<"name", "falsy">>, <<"tasks",
         "absent">>>>,
     message |-> <<"listId", ", ", "name", ", and ", "tasks",
         " are required for ", "create_with_tasks", " action">>,
     op |-> "createCardWithTasks"],
    [tool |-> "mcp_kanban_card_manager",
     action |-> "get_details",
     checks |-> <<<<"cardId", "falsy">>>>,
     message |-> <<"cardId", " is required for ", "get_details", " action">>,
     op |-> "getCardDetails"],
    [tool |-> "mcp_kanban_card_manager",
     action |-> "assign_member",
     checks |-> <<<<"cardIdForOps", "falsy">>, <<"userId", "falsy">>>>,
     message |-> <<"id (or cardId)", " and ", "userId", " are required for ",
         "assign_member", " action">>,
     op |-> "cards.assignMemberToCard"],
    [tool |-> "mcp_kanban_label_manager",
     action |-> "get_all",
     checks |-> <<<<"boardId", "falsy">>>>,
     message |-> <<"boardId", " is required for ", "get_all", " action">>,
     op |-> "labels.getLabels"],
    [tool |-> "mcp_kanban_label_manager",
     action |-> "create",
     checks |-> <<<<"boardId", "falsy">>, <<"name", "falsy">>, <<"color",
         "falsy">>, <<"position", "undefined">>>>,
     message |-> <<"boardId", ", ", "name", ", ", "color", ", and ",
         "position", " are required for ", "create", " action">>,
     op |-> "labels.createLabel"],
    [tool |-> "mcp_kanban_label_manager",
     action |-> "update",
     checks |-> <<<<"id", "falsy">>, <<"name", "falsy">>, <<"color",
         "falsy">>, <<"position", "undefined">>>>,
     message |-> <<"id", ", ", "name", ", ", "color", ", and ", "position",
         " are required for ", "update", " action">>,
     op |-> "labels.updateLabel"],
    [tool |-> "mcp_kanban_label_manager",
     action |-> "delete",
     checks |-> <<<<"id", "falsy">>>>,
     message |-> <<"id", " is required for ", "delete", " action">>,
     op |-> "labels.deleteLabel"],
    [tool |-> "mcp_kanban_label_manager",
     action |-> "add_to_card",
     checks |-> <<<<"cardId", "falsy">>, <<"labelId", "falsy">>>>,
     message |-> <<"cardId", " and ", "labelId", " are required for ",
         "add_to_card", " action">>,
     op |-> "labels.addLabelToCard"],
    [tool |-> "mcp_kanban_label_manager",
     action |-> "remove_from_card",
     checks |-> <<<<"cardId", "falsy">>, <<"labelId", "falsy">>>>,
     message |-> <<"cardId", " and ", "labelId", " are required for ",
         "remove_from_card", " action">>,
     op |-> "labels.removeLabelFromCard"],
    [tool |-> "mcp_kanban_task_manager",
     action |-> "get_all",
     checks |-> <<<<"cardId", "falsy">>>>,
     message |-> <<"cardId", " is required for ", "get_all", " action">>,
     op |-> "tasks.getTasks"],
    [tool |-> "mcp_kanban_task_manager",
     action |-> "create",
     checks |-> <<<<"cardId", "falsy">>, <<"name", "falsy">>>>,
     message |-> <<"cardId", " and ", "name", " are required for ", "create",
         " action">>,
     op |-> "tasks.createTask"],
    [tool |-> "mcp_kanban_task_manager",
     action |-> "batch_create",
     checks |-> <<<<"tasks", "empty">>>>,
     message |-> <<"tasks", " array is required for ", "batch_create",
         " action">>,
     op |-> "tasks.batchCreateTasks"],
    [tool |-> "mcp_kanban_task_manager",
     action |-> "get_one",
     checks |-> <<<<"id", "falsy">>>>,
     message |-> <<"id", " is required for ", "get_one", " action">>,
     op |-> "tasks.getTask"],
    [tool |-> "mcp_kanban_task_manager",
     action |-> "update",
     checks |-> <<<<"id", "falsy">>>>,
     message |-> <<"id", " is required for ", "update", " action">>,
     op |-> "tasks.updateTask"],
    [tool |-> "mcp_kanban_task_manager",
     action |-> "complete_task",
     checks |-> <<<<"id", "falsy">>>>,
     message |-> <<"id", " is required for ", "complete_task", " action">>,
     op |-> "tasks.updateTask"],
    [tool |-> "mcp_kanban_task_manager",
     action |-> "delete",
     checks |-> <<<<"id", "falsy">>>>,
     message |-> <<"id", " is required for ", "delete", " action">>,
     op |-> "tasks.deleteTask"],
    [tool |-> "mcp_kanban_comment_manager",
     action |-> "get_all",
     checks |-> <<<<"cardId", "falsy">>>>,
     message |-> <<"cardId", " is required for ", "get_all", " action">>,
     op |-> "comments.getComments"],
    [tool |-> "mcp_kanban_comment_manager",
     action |-> "create",
     checks |-> <<<<"cardId", "falsy">>, <<"text", "falsy">>>>,
     message |-> <<"cardId", " and ", "text", " are required for ", "create",
         " action">>,
     op |-> "comments.createComment"],
    [tool |-> "mcp_kanban_comment_manager",
     action |-> "get_one",
     checks |-> <<<<"id", "falsy">>>>,
     message |-> <<"id", " is required for ", "get_one", " action">>,
     op |-> "comments.getComment"],
    [tool |-> "mcp_kanban_comment_manager",
     action |-> "update",
     checks |-> <<<<"id", "falsy">>, <<"text", "falsy">>>>,
     message |-> <<"id", " and ", "text", " are required for ", "update",
         " action">>,
     op |-> "comments.updateComment"],
    [tool |-> "mcp_kanban_comment_manager",
     action |-> "delete",
     checks |-> <<<<"id", "falsy">>>>,
     message |-> <<"id", " is required for ", "delete", " action">>,
     op |-> "comments.deleteComment"],
    [tool |-> "mcp_kanban_membership_manager",
     action |-> "get_all",
     checks |-> <<<<"boardId", "falsy">>>>,
     message |-> <<"boardId", " is required for ", "get_all", " action">>,
     op |-> "boardMemberships.getBoardMemberships"],
    [tool |-> "mcp_kanban_membership_manager",
     action |-> "create",
     checks |-> <<<<"boardId", "falsy">>, <<"userId", "falsy">>, <<"role",
         "falsy">>>>,
     message |-> <<"boardId", ", ", "userId", ", and ", "role",
         " are required for ", "create", " action">>,
     op |-> "boardMemberships.createBoardMembership"],
    [tool |-> "mcp_kanban_membership_manager",
     action |-> "get_one",
     checks |-> <<<<"id", "falsy">>>>,
     message |-> <<"id", " is required for ", "get_one", " action">>,
     op |-> "boardMemberships.getBoardMembership"],
    [tool |-> "mcp_kanban_membership_manager",
     action |-> "update",
     checks |-> <<<<"id", "falsy">>>>,
     message |-> <<"id", " is required for ", "update", " action">>,
     op |-> "boardMemberships.updateBoardMembership"],
    [tool |-> "mcp_kanban_membership_manager",
     action |-> "delete",
     checks |-> <<<<"id", "falsy">>>>,
     message |-> <<"id", " is required for ", "delete", " action">>,
     op |-> "boardMemberships.deleteBoardMembership"]}

\* const cardIdForOps = args.id || args.cardId
ArgumentOf(args, name) ==
    IF name = "cardIdForOps"
    THEN IF args["id"] = "value" THEN args["id"] ELSE args["cardId"]
    ELSE args[name]

\* The arguments a case reads in its test.
ArgumentsRead(entry) ==
    UNION {IF entry.checks[k][1] = "cardIdForOps" THEN {"id", "cardId"}
           ELSE {entry.checks[k][1]} : k \in DOMAIN entry.checks}

\* Whether one test of the `if` is true of a value.
TestFails(test, value) ==
    CASE test = "falsy" -> value \in {"undefined", "empty"}
      [] test = "undefined" -> value = "undefined"
      [] test = "absent" -> value = "undefined"
      [] OTHER -> value \in {"undefined", "empty"}

ToolInit ==
    /\ tPc = "idle"
    /\ tCase = CHOOSE entry \in ToolActions : entry.action = "get_projects"
    /\ tArgs = << >>
    /\ tInvoked = EmptyArray
    /\ tResult = [state |-> "pending"]

\* The server calls the handler of a tool with the arguments it parsed.
ToolCall ==
    /\ tPc = "idle"
    /\ \E entry \in ToolActions :
           /\ tCase' = entry
           /\ \E args \in [ArgumentsRead(entry) -> ArgumentValues] :
                  tArgs' = args
    /\ tPc' = "handling"
    /\ tInvoked' = EmptyArray
    /\ tResult' = [state |-> "pending"]

ToolHandleTestsFirst ==
    /\ tPc = "handling"
    /\ IF /\ Len(tCase.checks) > 0
          /\ TestFails(tCase.checks[1][2],
                        ArgumentOf(tArgs, tCase.checks[1][1]))
       THEN /\ tResult' = [state |-> "threw", message |-> tCase.message]
            /\ tInvoked' = tInvoked
       ELSE /\ tInvoked' = ArrayPush(tInvoked, tCase.op)
            /\ tResult' = [state |-> "returned"]
    /\ tPc' = "done"
    /\ UNCHANGED <<tCase, tArgs>>

\* The case of the switch: if a test of its `if` is true it throws,
\* otherwise it calls the operation and returns the result as text.
ToolHandle ==
    /\ tPc = "handling"
    /\ IF \E k \in DOMAIN tCase.checks :
              TestFails(tCase.checks[k][2],
                        ArgumentOf(tArgs, tCase.checks[k][1]))
       THEN /\ tResult' = [state |-> "threw", message |-> tCase.message]
            /\ tInvoked' = tInvoked
       ELSE /\ tInvoked' = ArrayPush(tInvoked, tCase.op)
            /\ tResult' = [state |-> "returned"]
    /\ tPc' = "done"
    /\ UNCHANGED <<tCase, tArgs>>

\* The server has the result; the next call starts afresh.
ToolDone ==
    /\ tPc = "done"
    /\ tPc' = "idle"
    /\ tCase' = CHOOSE entry \in ToolActions : entry.action = "get_projects"
    /\ tArgs' = << >>
    /\ tInvoked' = EmptyArray
    /\ tResult' = [state |-> "pending"]

\* No call of the tools and operations that stand alone.
ServiceIdle == SummaryInit /\ LabelInit /\ ScanInit /\ ToolInit

\* No call of createPlankaError: one fixed input, never passed.
ErrorIdle == ErrorInit /\ eStatus = 500 /\ eResponse = [type |-> "null"]

\* No caller of getAdminUserId but createBoard.
AdminIdle ==
    /\ AdminInit
    /\ aByEmail = [status |-> "reject", items |-> EmptyArray]
    /\ aByUsername = [status |-> "reject", items |-> EmptyArray]

\* A process with the agent credentials configured that has made no request.
ClientIdle == ClientInit /\ agentCredentials

InitBatch ==
    /\ ClientIdle
    /\ ErrorIdle
    /\ AdminIdle
    /\ WorkflowInit
    /\ ReadInit
    /\ ServiceIdle
    /\ BatchInit /\ BoardIdle /\ CardInit /\ StopwatchInit

InitBoard ==
    /\ ClientIdle
    /\ ErrorIdle
    /\ AdminIdle
    /\ WorkflowInit
    /\ ReadInit
    /\ ServiceIdle
    /\ BatchInit /\ BoardInit /\ CardInit /\ StopwatchInit

InitCard ==
    /\ ClientIdle
    /\ ErrorIdle
    /\ AdminIdle
    /\ WorkflowInit
    /\ ReadInit
    /\ ServiceIdle
    /\ BatchInit /\ BoardIdle /\ CardInit /\ StopwatchInit

InitStopwatch ==
    /\ ClientIdle
    /\ ErrorIdle
    /\ AdminIdle
    /\ WorkflowInit
    /\ ReadInit
    /\ ServiceIdle
    /\ BatchInit /\ BoardIdle /\ CardInit /\ StopwatchInit

InitClient ==
    /\ ClientInit
    /\ ErrorIdle
    /\ AdminIdle
    /\ WorkflowInit
    /\ ReadInit
    /\ ServiceIdle
    /\ BatchInit /\ BoardIdle /\ CardInit /\ StopwatchInit

NextBatch ==
    \/ SeqBatchCall /\ UNCHANGED <<boardVars, cardVars, stopwatchVars, clientVars,
                    errorVars, adminVars, workflowVars, readVars, serviceVars>>
    \/ SeqBatchIteration /\ UNCHANGED <<boardVars, cardVars, stopwatchVars, clientVars,
                    errorVars, adminVars, workflowVars, readVars, serviceVars>>
    \/ SeqBatchReturn /\ UNCHANGED <<boardVars, cardVars, stopwatchVars, clientVars,
                    errorVars, adminVars, workflowVars, readVars, serviceVars>>
    \/ ParBatchCall /\ UNCHANGED <<boardVars, cardVars, stopwatchVars, clientVars,
                    errorVars, adminVars, workflowVars, readVars, serviceVars>>
    \/ ParBatchSettle /\ UNCHANGED <<boardVars, cardVars, stopwatchVars, clientVars,
                    errorVars, adminVars, workflowVars, readVars, serviceVars>>
    \/ ParBatchReturn /\ UNCHANGED <<boardVars, cardVars, stopwatchVars, clientVars,
                    errorVars, adminVars, workflowVars, readVars, serviceVars>>

SpecBatch == InitBatch /\ [][NextBatch]_vars

NextBoard ==
    \/ CreateBoardCall /\ UNCHANGED <<batchVars, cardVars, stopwatchVars, clientVars,
                    errorVars, adminVars, workflowVars, readVars, serviceVars>>
    \/ CreateBoardPosted /\ UNCHANGED <<batchVars, cardVars, stopwatchVars, clientVars,
                    errorVars, adminVars, workflowVars, readVars, serviceVars>>
    \/ CreateBoardAdmin /\ UNCHANGED <<batchVars, cardVars, stopwatchVars, clientVars,
                    errorVars, adminVars, workflowVars, readVars, serviceVars>>
    \/ CreateBoardMember /\ UNCHANGED <<batchVars, cardVars, stopwatchVars, clientVars,
                    errorVars, adminVars, workflowVars, readVars, serviceVars>>
    \/ CreateBoardList /\ UNCHANGED <<batchVars, cardVars, stopwatchVars, clientVars,
                    errorVars, adminVars, workflowVars, readVars, serviceVars>>
    \/ CreateBoardLabel /\ UNCHANGED <<batchVars, cardVars, stopwatchVars, clientVars,
                    errorVars, adminVars, workflowVars, readVars, serviceVars>>
    \/ CreateBoardReturn /\ UNCHANGED <<batchVars, cardVars, stopwatchVars, clientVars,
                    errorVars, adminVars, workflowVars, readVars, serviceVars>>
    \/ CreateBoardDone /\ UNCHANGED <<batchVars, cardVars, stopwatchVars, clientVars,
                    errorVars, adminVars, workflowVars, readVars, serviceVars>>

SpecBoard == InitBoard /\ [][NextBoard]_vars

NextCard ==
    \/ CardCall /\ UNCHANGED <<batchVars, boardVars, stopwatchVars, clientVars,
                    errorVars, adminVars, workflowVars, readVars, serviceVars>>
    \/ CardCreated /\ UNCHANGED <<batchVars, boardVars, stopwatchVars, clientVars,
                    errorVars, adminVars, workflowVars, readVars, serviceVars>>
    \/ CardAssignMember /\ UNCHANGED <<batchVars, boardVars, stopwatchVars, clientVars,
                    errorVars, adminVars, workflowVars, readVars, serviceVars>>
    \/ CardCreateTask /\ UNCHANGED <<batchVars, boardVars, stopwatchVars, clientVars,
                    errorVars, adminVars, workflowVars, readVars, serviceVars>>
    \/ CardTaskComment /\ UNCHANGED <<batchVars, boardVars, stopwatchVars, clientVars,
                    errorVars, adminVars, workflowVars, readVars, serviceVars>>
    \/ CardGlobalComment /\ UNCHANGED <<batchVars, boardVars, stopwatchVars, clientVars,
                    errorVars, adminVars, workflowVars, readVars, serviceVars>>
    \/ CardReturn /\ UNCHANGED <<batchVars, boardVars, stopwatchVars, clientVars,
                    errorVars, adminVars, workflowVars, readVars, serviceVars>>
    \/ CardDone /\ UNCHANGED <<batchVars, boardVars, stopwatchVars, clientVars,
                    errorVars, adminVars, workflowVars, readVars, serviceVars>>

SpecCard == InitCard /\ [][NextCard]_vars

NextStopwatch ==
    \/ ClockTick /\ UNCHANGED <<batchVars, boardVars, cardVars, clientVars,
                    errorVars, adminVars, workflowVars, readVars, serviceVars>>
    \/ StopwatchCall /\ UNCHANGED <<batchVars, boardVars, cardVars, clientVars,
                    errorVars, adminVars, workflowVars, readVars, serviceVars>>
    \/ ResetCall /\ UNCHANGED <<batchVars, boardVars, cardVars, clientVars,
                    errorVars, adminVars, workflowVars, readVars, serviceVars>>
    \/ GotCard /\ UNCHANGED <<batchVars, boardVars, cardVars, clientVars,
                    errorVars, adminVars, workflowVars, readVars, serviceVars>>
    \/ Patched /\ UNCHANGED <<batchVars, boardVars, cardVars, clientVars,
                    errorVars, adminVars, workflowVars, readVars, serviceVars>>
    \/ StopwatchDone /\ UNCHANGED <<batchVars, boardVars, cardVars, clientVars,
                    errorVars, adminVars, workflowVars, readVars, serviceVars>>

SpecStopwatch == InitStopwatch /\ [][NextStopwatch]_vars

otherVars == <<batchVars, boardVars, cardVars, stopwatchVars, errorVars, adminVars, workflowVars, readVars, serviceVars>>

NextClient ==
    \/ \E r \in Requests : RequestCall(r) /\ UNCHANGED otherVars
    \/ \E r \in Requests : LoginResponse(r) /\ UNCHANGED otherVars
    \/ \E r \in Requests : RequestSend(r) /\ UNCHANGED otherVars
    \/ \E r \in Requests : RequestResponse(r) /\ UNCHANGED otherVars

SpecClient == InitClient /\ [][NextClient]_vars

InitErrors ==
    /\ ClientIdle
    /\ ErrorInit
    /\ AdminIdle
    /\ WorkflowInit
    /\ ReadInit
    /\ ServiceIdle
    /\ BatchInit /\ BoardIdle /\ CardInit /\ StopwatchInit

NextErrors ==
    CreateError /\ UNCHANGED <<batchVars, boardVars, cardVars, stopwatchVars,
                               clientVars, adminVars, workflowVars, readVars, serviceVars>>

SpecErrors == InitErrors /\ [][NextErrors]_vars

InitAdmin ==
    /\ ClientIdle
    /\ ErrorIdle
    /\ AdminInit
    /\ WorkflowInit
    /\ ReadInit
    /\ ServiceIdle
    /\ BatchInit /\ BoardInit /\ CardInit /\ StopwatchInit

boardLocals == <<env, cbPc, cbOptions, cbBoard, cbAdmin, cbIndex, cbCalls,
                 cbReturn>>

NextAdmin ==
    \/ AdminCall /\ UNCHANGED <<batchVars, boardLocals, cardVars,
                                 stopwatchVars, clientVars, errorVars,
                                 workflowVars, readVars, serviceVars>>
    \/ AdminNext /\ UNCHANGED <<batchVars, boardLocals, cardVars,
                                 stopwatchVars, clientVars, errorVars,
                                 workflowVars, readVars, serviceVars>>

SpecAdmin == InitAdmin /\ [][NextAdmin]_vars

InitWorkflow ==
    /\ ClientIdle
    /\ ErrorIdle
    /\ AdminIdle
    /\ WorkflowInit
    /\ ReadInit
    /\ ServiceIdle
    /\ BatchInit /\ BoardIdle /\ CardInit /\ StopwatchInit

notWorkflowVars == <<batchVars, boardVars, cardVars, stopwatchVars,
                     clientVars, errorVars, adminVars, readVars, serviceVars>>

NextWorkflow ==
    \/ WorkflowCall /\ UNCHANGED notWorkflowVars
    \/ WorkflowGotCard /\ UNCHANGED notWorkflowVars
    \/ WorkflowGotBoard /\ UNCHANGED notWorkflowVars
    \/ WorkflowGotLists /\ UNCHANGED notWorkflowVars
    \/ \E j \in 0..(MaxWorkflowTasks - 1) :
          WorkflowGotTask(j) /\ UNCHANGED notWorkflowVars
    \/ \E j \in 0..(MaxWorkflowTasks - 1) :
          WorkflowUpdatedTask(j) /\ UNCHANGED notWorkflowVars
    \/ WorkflowTaskCommented /\ UNCHANGED notWorkflowVars
    \/ WorkflowMoved /\ UNCHANGED notWorkflowVars
    \/ WorkflowCommented /\ UNCHANGED notWorkflowVars
    \/ WorkflowDone /\ UNCHANGED notWorkflowVars

SpecWorkflow == InitWorkflow /\ [][NextWorkflow]_vars

InitReads ==
    /\ ClientIdle
    /\ ErrorIdle
    /\ AdminIdle
    /\ WorkflowInit
    /\ ReadInit
    /\ ServiceIdle
    /\ BatchInit /\ BoardIdle /\ CardInit /\ StopwatchInit

notReadVars == <<batchVars, boardVars, cardVars, stopwatchVars,
                 clientVars, errorVars, adminVars, workflowVars,
                 serviceVars>>

NextReads ==
    \/ ReadCollection /\ UNCHANGED notReadVars
    \/ OperateOnItem /\ UNCHANGED notReadVars
    \/ ReadDone /\ UNCHANGED notReadVars

SpecReads == InitReads /\ [][NextReads]_vars

InitSummary ==
    /\ ClientIdle
    /\ ErrorIdle
    /\ AdminIdle
    /\ WorkflowInit
    /\ ReadInit
    /\ SummaryInit /\ LabelInit /\ ScanInit /\ ToolInit
    /\ BatchInit /\ BoardIdle /\ CardInit /\ StopwatchInit

NextSummary ==
    \/ SummaryCall /\ UNCHANGED <<coreVars, labelVars, scanVars, toolVars>>
    \/ SummaryThrow /\ UNCHANGED <<coreVars, labelVars, scanVars, toolVars>>
    \/ SummaryReturn /\ UNCHANGED <<coreVars, labelVars, scanVars, toolVars>>
    \/ SummaryDone /\ UNCHANGED <<coreVars, labelVars, scanVars, toolVars>>

SpecSummary == InitSummary /\ [][NextSummary]_vars

InitLabels ==
    /\ ClientIdle
    /\ ErrorIdle
    /\ AdminIdle
    /\ WorkflowInit
    /\ ReadInit
    /\ SummaryInit /\ LabelInit /\ ScanInit /\ ToolInit
    /\ BatchInit /\ BoardIdle /\ CardInit /\ StopwatchInit

NextLabels ==
    \/ LabelCall /\ UNCHANGED <<coreVars, summaryVars, scanVars, toolVars>>
    \/ LabelRequest /\ UNCHANGED <<coreVars, summaryVars, scanVars, toolVars>>
    \/ LabelDone /\ UNCHANGED <<coreVars, summaryVars, scanVars, toolVars>>

SpecLabels == InitLabels /\ [][NextLabels]_vars

InitScan ==
    /\ ClientIdle
    /\ ErrorIdle
    /\ AdminIdle
    /\ WorkflowInit
    /\ ReadInit
    /\ SummaryInit /\ LabelInit /\ ScanInit /\ ToolInit
    /\ BatchInit /\ BoardIdle /\ CardInit /\ StopwatchInit

NextScan ==
    \/ ScanCall /\ UNCHANGED <<coreVars, summaryVars, labelVars, toolVars>>
    \/ ScanGotProjects /\ UNCHANGED <<coreVars, summaryVars, labelVars, toolVars>>
    \/ ScanNextBoard /\ UNCHANGED <<coreVars, summaryVars, labelVars, toolVars>>
    \/ ScanNextCard /\ UNCHANGED <<coreVars, summaryVars, labelVars, toolVars>>
    \/ ScanDone /\ UNCHANGED <<coreVars, summaryVars, labelVars, toolVars>>

SpecScan == InitScan /\ [][NextScan]_vars

InitTools ==
    /\ ClientIdle
    /\ ErrorIdle
    /\ AdminIdle
    /\ WorkflowInit
    /\ ReadInit
    /\ SummaryInit /\ LabelInit /\ ScanInit /\ ToolInit
    /\ BatchInit /\ BoardIdle /\ CardInit /\ StopwatchInit

notToolVars == <<coreVars, summaryVars, labelVars, scanVars>>

NextTools ==
    \/ ToolCall /\ UNCHANGED notToolVars
    \/ ToolHandle /\ UNCHANGED notToolVars
    \/ ToolDone /\ UNCHANGED notToolVars

SpecTools == InitTools /\ [][NextTools]_vars

(***************************************************************************)
(* Properties of batchCreateTasks.                                         *)
(***************************************************************************)
FailingIndices == {k \in DOMAIN bOutcome : bOutcome[k] # "ok"}

\* C1: a batch of N tasks of which exactly one, at index K, fails in
\* createTask ends by returning, never by throwing; every one of the N
\* creations was attempted; the sequential variant returns N-1 successes
\* and one failure entry with index K, the parallel variant a summary with
\* succeeded = N-1, failed = 1 and one errors entry with index K.
C1_OneFailureDoesNotAbort ==
    (bReturn.state # "pending" /\ Cardinality(FailingIndices) = 1) =>
        LET K == CHOOSE k \in FailingIndices : TRUE
            N == ArrayLength(bTasks)
        IN  /\ bReturn.state = "returned"
            /\ ArrayLength(bCalls) = N
            /\ \A k \in 0..(N - 1) : \E j \in DOMAIN bCalls : bCalls[j] = k
            /\ ArrayLength(bReturn.results) = N
            /\ bVariant = "sequential" =>
                  /\ ArrayLength(bReturn.successes) = N - 1
                  /\ ArrayLength(bReturn.failures) = 1
                  /\ bReturn.failures[0].index = K
                  /\ bReturn.failures[0].task = bTasks[K]
            /\ bVariant = "parallel" =>
                  /\ bReturn.summary.total = N
                  /\ bReturn.summary.succeeded = N - 1
                  /\ bReturn.summary.failed = 1
                  /\ ArrayLength(bReturn.summary.errors) = 1
                  /\ bReturn.summary.errors[0].index = K
                  /\ bReturn.summary.errors[0].task = bTasks[K]

\* A parallel batch of three tasks has returned; only the task at index 1
\* failed and the two others were created.
C1_Witness ==
    /\ bVariant = "parallel"
    /\ bReturn.state = "returned"
    /\ ArrayLength(bTasks) = 3
    /\ FailingIndices = {1}
    /\ bReturn.summary.succeeded = 2

(***************************************************************************)
(* Properties of createBoard.                                              *)
(***************************************************************************)
CallFailed(kind) ==
    \E k \in DOMAIN cbCalls :
        cbCalls[k].call = kind /\ cbCalls[k].outcome # "ok"

\* C2: once the POST of the board has succeeded with a valid response,
\* createBoard never throws and ends by returning that board, whatever the
\* admin lookup, the membership creation and the creations of the default
\* lists and labels do.
C2_BoardReturnedWhateverFollows ==
    cbBoard.id # NULL =>
        /\ cbReturn.state # "threw"
        /\ cbPc = "done" =>
              cbReturn = [state |-> "returned", board |-> cbBoard]

\* createBoard has returned the board although the membership, a default
\* list and a default label failed to be created.
C2_Witness ==
    /\ cbPc = "done"
    /\ cbReturn.state = "returned"
    /\ cbReturn.board.id = "b1"
    /\ CallFailed("createBoardMembership")
    /\ CallFailed("createList")
    /\ CallFailed("createLabel")

\* The creation calls of the log, in order: the lookups of the admin user
\* are left out.
RECURSIVE CreationsFrom(_, _, _)
CreationsFrom(calls, k, acc) ==
    IF k >= ArrayLength(calls) THEN acc
    ELSE IF calls[k].call \in {"getUserIdByEmail", "getUserIdByUsername"}
         THEN CreationsFrom(calls, k + 1, acc)
         ELSE CreationsFrom(calls, k + 1, ArrayPush(acc, calls[k]))

Creations == CreationsFrom(cbCalls, 0, EmptyArray)

EveryCallSucceeded ==
    /\ cbReturn.state = "returned"
    /\ \A k \in DOMAIN cbCalls :
          cbCalls[k].call # "createBoard" => cbCalls[k].outcome = "ok"

SixListNames == ArrayOf(<<"Backlog", "To Do", "In Progress", "On Hold",
                          "Review", "Done">>)

\* From index `from` of the creation calls: six createList calls with the
\* six names at positions 65535*k, then eleven createLabel calls at
\* strictly increasing positions, and nothing else.
ListsThenLabelsAt(from) ==
    /\ ArrayLength(Creations) = from + 17
    /\ \A k \in 0..5 :
          /\ Creations[from + k].call = "createList"
          /\ Creations[from + k].name = SixListNames[k]
          /\ Creations[from + k].position = 65535 * (k + 1)
    /\ \A k \in 0..10 :
          /\ Creations[from + 6 + k].call = "createLabel"
          /\ k > 0 => Creations[from + 6 + k].position
                        > Creations[from + 6 + k - 1].position

\* C3 as stated: when every upstream call succeeds the creation calls are
\* the board POST, the admin membership as editor, the six lists and the
\* eleven labels.
C3_AsStated ==
    (cbPc = "done" /\ EveryCallSucceeded) =>
        /\ Creations[0].call = "createBoard"
        /\ ArrayLength(Creations) > 1
        /\ Creations[1].call = "createBoardMembership"
        /\ Creations[1].role = "editor"
        /\ ListsThenLabelsAt(2)

\* C3 amended: when every upstream call succeeds and getAdminUserId yields
\* an ID, the creation calls are the board POST, the membership of that ID
\* as editor, the six lists and the eleven labels; when it yields null the
\* membership is left out and the rest is the same.  While the board POST
\* is in flight it is the only call issued.
C3_CreationOrder ==
    /\ cbPc = "post" => ArrayLength(cbCalls) = 1
    /\ cbPc # "idle" => cbCalls[0].call = "createBoard"
    /\ (cbPc = "done" /\ EveryCallSucceeded) =>
          IF cbAdmin # NULL
          THEN /\ Creations[1].call = "createBoardMembership"
               /\ Creations[1].role = "editor"
               /\ Creations[1].userId = cbAdmin
               /\ Creations[1].boardId = cbReturn.board.id
               /\ ListsThenLabelsAt(2)
          ELSE ListsThenLabelsAt(1)

\* The whole population has succeeded for a board whose admin was found by
\* the lookup by username.
C3_Witness ==
    /\ cbPc = "done"
    /\ EveryCallSucceeded
    /\ cbAdmin = "u2"
    /\ ArrayLength(Creations) = 19

(***************************************************************************)
(* Properties of createCardWithTasks.                                      *)
(***************************************************************************)
\* The calls of the log other than the member assignments, in order.
RECURSIVE ExceptAssignFrom(_, _, _)
ExceptAssignFrom(calls, k, acc) ==
    IF k >= ArrayLength(calls) THEN acc
    ELSE IF calls[k].call = "assignMemberToCard"
         THEN ExceptAssignFrom(calls, k + 1, acc)
         ELSE ExceptAssignFrom(calls, k + 1, ArrayPush(acc, calls[k]))

CardCallsExceptAssign == ExceptAssignFrom(ccCalls, 0, EmptyArray)

AssignCalls == {k \in DOMAIN ccCalls : ccCalls[k].call = "assignMemberToCard"}

EveryCardCallSucceeded ==
    /\ ccReturn.state = "returned"
    /\ \A k \in DOMAIN ccCalls :
          ccCalls[k].call # "createCard" => ccCalls[k].outcome = "ok"

NoTaskComment ==
    \A i \in DOMAIN ccParams.tasks : ~Truthy(ccParams.tasks[i].comment)

\* C4: with n tasks, none with a comment of its own, and a global comment
\* (a non-empty text), when every call succeeds: the card is created first,
\* then the n tasks in input order at positions 65535*(i+1), then one
\* comment with the given text; the value returned holds the card, the n
\* tasks and that comment.
C4_CardThenTasksThenComment ==
    (/\ ccPc = "done"
     /\ EveryCardCallSucceeded
     /\ NoTaskComment
     /\ Truthy(ccParams.comment)) =>
        LET n == ArrayLength(ccParams.tasks)
            calls == CardCallsExceptAssign
        IN  /\ ArrayLength(calls) = n + 2
            /\ calls[0].call = "createCard"
            /\ \A i \in 0..(n - 1) :
                  /\ calls[i + 1].call = "createTask"
                  /\ calls[i + 1].name = ccParams.tasks[i].name
                  /\ calls[i + 1].position = 65535 * (i + 1)
                  /\ i > 0 => calls[i + 1].position > calls[i].position
            /\ calls[n + 1].call = "createComment"
            /\ calls[n + 1].text = <<ccParams.comment>>
            /\ ccReturn.card.id = "c1"
            /\ ArrayLength(ccReturn.tasks) = n
            /\ \A i \in 0..(n - 1) :
                  /\ ccReturn.tasks[i].name = ccParams.tasks[i].name
                  /\ ccReturn.tasks[i].position = 65535 * (i + 1)
            /\ ccReturn.comment.id # NULL
            /\ ccReturn.comment.text = <<ccParams.comment>>

\* The scenario of the specification: two tasks t1, t2 and the comment
\* "done", every call succeeding.
C4_Witness ==
    /\ ccPc = "done"
    /\ EveryCardCallSucceeded
    /\ NoTaskComment
    /\ ArrayLength(ccParams.tasks) = 2
    /\ ccParams.tasks[0].name = "t1"
    /\ ccParams.tasks[1].name = "t2"
    /\ ccParams.comment = "done"
    /\ ArrayLength(ccReturn.tasks) = 2

GetReturned ==
    swOp = "get" /\ swPc = "done" /\ swResult.state = "returned"

PreviousReturned(op) == swPrev = [op |-> op, state |-> "returned"]

\* C6: in any sequence of start, stop, get and reset, a get that follows a
\* start that returned reports isRunning = true, one that follows a stop
\* that returned reports isRunning = false, and one that follows a reset
\* that returned reports total = 0 and isRunning = false.
C6_GetAfterStartStopReset ==
    GetReturned =>
        /\ PreviousReturned("start") => swResult.info.isRunning
        /\ PreviousReturned("stop") => ~swResult.info.isRunning
        /\ PreviousReturned("reset") =>
              swResult.info.total = 0 /\ ~swResult.info.isRunning

\* A get right after a start finds the stopwatch running with the total
\* of an earlier run.
C6_Witness ==
    /\ GetReturned
    /\ PreviousReturned("start")
    /\ swResult.info.isRunning
    /\ swResult.info.total > 0

TotalOf(stopwatch) == IF stopwatch.isNull THEN 0 ELSE stopwatch.total

\* C7: start sends {startedAt: now, total: T}, T the total read from the
\* card or 0; stop on a running stopwatch sends {startedAt: null,
\* total: T + floor((now - startedAt)/1000)}; the clock never going back,
\* no step of a start or of a stop decreases the stored total.
C7_StartStopTotals ==
    [][ /\ (swOp = "start" /\ swPc = "getCard" /\ swPc' = "patch") =>
              /\ swBody'.startedAt = [isNull |-> FALSE, iso |-> swNow]
              /\ swBody'.total = TotalOf(swStored)
        /\ (swOp = "stop" /\ swPc = "getCard" /\ swPc' = "patch") =>
              /\ ~swStored.isNull /\ ~swStored.startedAt.isNull
              /\ swBody'.startedAt = [isNull |-> TRUE]
              /\ swBody'.total = swStored.total
                    + ((swNow - swStored.startedAt.iso) \div 1000)
        /\ (swOp \in {"start", "stop"} /\ swPc = "patch"
              /\ swStored' # swStored) => swStored' = swBody
        /\ swOp \in {"start", "stop"} =>
              TotalOf(swStored') >= TotalOf(swStored)
        /\ swNow' >= swNow
      ]_vars

\* A second run has been stopped: the stopwatch read had the total 1 of the
\* first run, and the stored total is now 2.
C7_Witness ==
    /\ swOp = "stop"
    /\ swPc = "done"
    /\ swResult.state = "returned"
    /\ ~swCard.isNull
    /\ ~swCard.startedAt.isNull
    /\ swCard.total = 1
    /\ swStored.total = 2
    /\ (swNow - swCard.startedAt.iso) % 1000 # 0

NoLoginInFlight == \A r \in Requests : req[r].pc # "login"

FailedWith401(r) ==
    /\ req[r].pc = "done"
    /\ req[r].result.state = "threw"
    /\ req[r].answer.kind = "status"
    /\ req[r].answer.status = 401

\* C8: once a login has cached a token and no login is in flight, every
\* step leaves the cached token as it is and issues no login call,
\* whatever the answer to a request (a 401 included); a plankaRequest
\* without skipAuth that starts then takes the cached token, issues no
\* login, and sends the token it took.
C8_CachedTokenIsReused ==
    [][(Truthy(agentToken) /\ NoLoginInFlight) =>
          /\ agentToken' = agentToken
          /\ logins' = logins
          /\ \A r \in Requests :
                /\ (req[r].pc = "idle" /\ req'[r].pc # "idle"
                        /\ ~req'[r].skipAuth) =>
                      /\ req'[r].pc = "authed"
                      /\ req'[r].token = agentToken
                      /\ ~req'[r].loggedIn
                /\ (req[r].pc = "authed" /\ req'[r].pc = "sent") =>
                      req'[r].token = req[r].token]_vars

\* A request that took the cached token was answered 401, and the cache
\* still holds the token of the one login.
C8_Witness ==
    \E r \in Requests :
        /\ FailedWith401(r)
        /\ ~req[r].skipAuth /\ ~req[r].loggedIn
        /\ Truthy(agentToken) /\ req[r].token = agentToken
        /\ logins = 1

NoAuthenticatedCallYet ==
    \A r \in Requests : req[r].pc = "idle" \/ req[r].skipAuth

\* C9 as stated: the login call is issued at most once over any execution,
\* and the token is absent until the first authenticated call.
C9_AsStated ==
    /\ logins <= 1
    /\ NoAuthenticatedCallYet => agentToken = NULL

\* C9: a login call is issued only while no token is cached (so at most
\* once when the first-time callers do not overlap and the first login
\* yields a token), and the token is absent until the first authenticated
\* call.
C9_LoginOnlyWhileNoTokenCached ==
    /\ [][logins' > logins => ~Truthy(agentToken)]_vars
    /\ [](NoAuthenticatedCallYet => agentToken = NULL)

\* One request logged in and a later one went out with the cached token
\* without a second login.
C9_Witness ==
    \E r1, r2 \in Requests :
        /\ r1 # r2
        /\ req[r1].loggedIn /\ req[r1].pc \in {"sent", "done"}
        /\ ~req[r2].loggedIn /\ ~req[r2].skipAuth
        /\ req[r2].pc = "sent" /\ req[r2].token = agentToken
        /\ Truthy(agentToken)
        /\ logins = 1

LoginAnswered(r) == req[r].loggedIn /\ req[r].loginItem # NULL

\* C10: a request whose own login was answered with a token proceeds with
\* that token, also when another first-time caller logged in at the same
\* time, and the cache holds the item of the login answered last.
C10_EachLoginItsOwnToken ==
    /\ \A r \in Requests :
          (LoginAnswered(r) /\ req[r].loginItem \in Tokens) =>
              /\ req[r].pc \in {"authed", "sent", "done"}
              /\ req[r].token = req[r].loginItem
              /\ req[r].pc = "done" =>
                    \/ req[r].result.state = "returned"
                    \/ req[r].result.error.message[1] =
                         "Failed to make Planka request to "
    /\ lastLogin # NULL => agentToken = lastLogin

\* Two requests started while the cache was empty, each issued its own
\* login, the logins returned different tokens, both requests went out
\* with their own token, and the cache holds one of the two, which the
\* request that logged in first did not send.
C10_Witness ==
    \E r1, r2 \in Requests :
        /\ r1 # r2
        /\ logins = 2
        /\ LoginAnswered(r1) /\ LoginAnswered(r2)
        /\ req[r1].loginItem \in Tokens /\ req[r2].loginItem \in Tokens
        /\ req[r1].loginItem # req[r2].loginItem
        /\ req[r1].pc \in {"sent", "done"} /\ req[r2].pc \in {"sent", "done"}
        /\ req[r1].token = req[r1].loginItem
        /\ req[r2].token = req[r2].loginItem
        /\ agentToken = req[r2].loginItem

ThrewTokenError(r) ==
    /\ req[r].pc = "done"
    /\ req[r].result.state = "threw"
    /\ req[r].result.error.message[1] = "Failed to get authentication token: "

C12_StatusToKind ==
    LET KindOf(status) ==
            CASE status = 401 -> "PlankaAuthenticationError"
              [] status = 403 -> "PlankaPermissionError"
              [] status = 404 -> "PlankaResourceNotFoundError"
              [] status = 409 -> "PlankaConflictError"
              [] status = 422 -> "PlankaValidationError"
              [] status = 429 -> "PlankaRateLimitError"
              [] OTHER -> "PlankaError"
    IN  (eError.state = "called" /\ ~eError.value.threw) =>
            /\ eError.value.name = KindOf(eStatus)
            /\ eError.value.status = eStatus
            /\ isPlankaError(eError.value)
            /\ eError.value.name = "PlankaError" =>
                  eError.value.response = eResponse

\* A 422 was mapped to a Validation error.
C12_Witness ==
    /\ eError.state = "called"
    /\ eStatus = 422
    /\ eError.value.name = "PlankaValidationError"
    /\ eError.value.status = 422

\* C13 as stated: a 422 with body {message: "bad name"} reaches the caller
\* of plankaRequest as a Validation error whose message is exactly
\* "bad name" and whose response is the body.
C13_AsStated ==
    \A r \in Requests :
        (/\ req[r].pc = "done"
         /\ req[r].answer.kind = "status"
         /\ req[r].answer.status = 422
         /\ req[r].answer.body = ObjectPayload("bad name", UNDEFINED)) =>
            /\ req[r].result.state = "threw"
            /\ req[r].result.error.name = "PlankaValidationError"
            /\ req[r].result.error.message = <<"bad name">>
            /\ req[r].result.error.response = req[r].answer.body

\* C14 as stated: createPlankaError returns an error object for every
\* status and every payload.
C14_AsStated ==
    eError.state = "called" => ~eError.value.threw

\* C15: one invocation of plankaRequest issues at most one call to the
\* requested path and at most one login call; once the call is answered
\* the invocation is over, and it has thrown unless the answer was a 2xx
\* body.
C15_NoRetry ==
    /\ [](\A r \in Requests : req[r].fetches <= 1 /\ req[r].loginCalls <= 1)
    /\ [][\A r \in Requests :
            (req[r].pc = "sent" /\ req'[r] # req[r]) =>
                /\ req'[r].pc = "done"
                /\ req'[r].fetches = req[r].fetches
                /\ req'[r].loginCalls = req[r].loginCalls
                /\ req'[r].answer.kind # "ok" =>
                      req'[r].result.state = "threw"]_vars

\* A request was answered 429 and threw after its one call.
C15_Witness ==
    \E r \in Requests :
        /\ req[r].pc = "done"
        /\ req[r].answer.kind = "status" /\ req[r].answer.status = 429
        /\ req[r].fetches = 1
        /\ req[r].result.state = "threw"

\* C16: getAdminUserId returns the cached ID if one is cached; otherwise
\* it returns and caches what the first of the direct ID, the lookup by
\* email and the lookup by username yields, a lookup being made only when
\* it is configured and nothing before it yielded an ID; when nothing
\* yields an ID it returns null and leaves the cache, and it returns also
\* when a lookup fails.
C16_AdminIdStrategies ==
    [][(aResult.state = "pending" /\ aResult'.state # "pending") =>
        LET Configured(v) == v # UNDEFINED
            direct == env.PLANKA_ADMIN_ID
            byE == IF Configured(env.PLANKA_ADMIN_EMAIL)
                   THEN getUserIdByEmail(env.PLANKA_ADMIN_EMAIL, aByEmail)
                   ELSE NULL
            byU == IF Configured(env.PLANKA_ADMIN_USERNAME)
                   THEN getUserIdByUsername(env.PLANKA_ADMIN_USERNAME,
                                            aByUsername)
                   ELSE NULL
            searched == adminUserId = NULL /\ ~Configured(direct)
            expected == IF adminUserId # NULL THEN adminUserId
                        ELSE IF Configured(direct) THEN direct
                        ELSE IF byE # NULL THEN byE
                        ELSE byU
            Made(call) == \E k \in DOMAIN aResult'.lookups :
                              aResult'.lookups[k].call = call
        IN  /\ aResult'.state = "returned"
            /\ aResult'.id = expected
            /\ adminUserId' = IF expected # NULL THEN expected
                              ELSE adminUserId
            /\ Made("getUserIdByEmail") <=>
                  (searched /\ Configured(env.PLANKA_ADMIN_EMAIL))
            /\ Made("getUserIdByUsername") <=>
                  (searched /\ byE = NULL
                      /\ Configured(env.PLANKA_ADMIN_USERNAME))]_vars

\* The lookup by email failed, the lookup by username yielded the ID, and
\* the ID is cached.
C16_Witness ==
    /\ aResult.state = "returned"
    /\ ArrayLength(aResult.lookups) = 2
    /\ aResult.lookups[0].outcome = "reject"
    /\ aResult.id = UserByUsername.id
    /\ adminUserId = UserByUsername.id

CallsOf(op) == {k \in DOMAIN wCalls : wCalls[k].op = op}

\* C17 as stated: mark_completed sends for every task ID given an update
\* with isCompleted = true, never moves the card, and throws when taskIds
\* is absent or empty.
C17_AsStated ==
    wParams.action = "mark_completed" =>
        /\ \A k \in CallsOf("updateTask") :
              /\ "isCompleted" \in DOMAIN wCalls[k].body
              /\ wCalls[k].body.isCompleted = TRUE
        /\ CallsOf("moveCard") = {}
        /\ (wPc = "done" /\ wReturn.state = "returned") =>
              \A j \in DOMAIN wParams.taskIds.ids :
                  \E k \in CallsOf("updateTask") :
                      wCalls[k].taskId = wParams.taskIds.ids[j]
        /\ (wPc = "done" /\ ArrayLength(wParams.taskIds.ids) = 0) =>
              wReturn.state = "threw"

MoveActions == {"start_working", "move_to_testing", "move_to_done"}

\* The lists of the board whose lower-cased name is the target name of
\* the action.
TargetLists ==
    LET names == CASE wParams.action = "start_working" -> {"in progress"}
                   [] wParams.action = "move_to_testing" ->
                         {"testing", "review"}
                   [] wParams.action = "move_to_done" -> {"done"}
                   [] OTHER -> {}
    IN  {j \in DOMAIN wUpstreamLists :
            toLowerCase(wUpstreamLists[j].name) \in names}

CommentText == Or(wParams.comment, DefaultComment(wParams.action))

\* C18 as stated: for the three moving actions, when the board has a list
\* of the target name exactly one moveCard to such a list and then exactly
\* one createComment (the caller's text or the default) are issued;
\* without such a list the call throws and issues neither.
C18_AsStated ==
    (wPc = "done" /\ wParams.action \in MoveActions) =>
        IF TargetLists # {}
        THEN /\ Cardinality(CallsOf("moveCard")) = 1
             /\ Cardinality(CallsOf("createComment")) = 1
             /\ \A k \in CallsOf("moveCard") :
                   /\ \E j \in TargetLists :
                         wCalls[k].listId = wUpstreamLists[j].id
                   /\ \A c \in CallsOf("createComment") :
                         k < c /\ wCalls[c].text = CommentText
        ELSE /\ wReturn.state = "threw"
             /\ CallsOf("moveCard") = {}
             /\ CallsOf("createComment") = {}

\* getCard gave a card, a board ID was given or on the card, getBoard gave
\* the board and the call of getLists succeeded.
Fetched == \E k \in CallsOf("getLists") : wCalls[k].outcome = "ok"

\* C18: for the three moving actions, when the card, the board and the
\* lists were fetched and the board has a list of the target name, exactly
\* one moveCard to such a list is issued; when the move succeeds exactly
\* one createComment (the caller's text or the default) follows, and when
\* it fails the call throws without a comment.  In every other case the
\* call throws and issues neither the move nor the comment.
C18_MoveThenComment ==
    (wPc = "done" /\ wParams.action \in MoveActions) =>
        IF Fetched /\ TargetLists # {}
        THEN /\ Cardinality(CallsOf("moveCard")) = 1
             /\ \A k \in CallsOf("moveCard") :
                   /\ \E j \in TargetLists :
                         wCalls[k].listId = wUpstreamLists[j].id
                   /\ IF wCalls[k].outcome = "ok"
                      THEN /\ Cardinality(CallsOf("createComment")) = 1
                           /\ \A c \in CallsOf("createComment") :
                                 k < c /\ wCalls[c].text = CommentText
                      ELSE /\ CallsOf("createComment") = {}
                           /\ wReturn.state = "threw"
        ELSE /\ wReturn.state = "threw"
             /\ CallsOf("moveCard") = {}
             /\ CallsOf("createComment") = {}

\* move_to_testing moved the card to the list named Review and added the
\* default comment.
C18_Witness ==
    /\ wPc = "done"
    /\ wParams.action = "move_to_testing"
    /\ ~Truthy(wParams.comment)
    /\ wReturn.state = "returned"
    /\ wTarget.name = "Review"
    /\ \E k \in CallsOf("moveCard") : wCalls[k].listId = wTarget.id
    /\ \E c \in CallsOf("createComment") :
          wCalls[c].text = DefaultComment("move_to_testing")

\* A call the operation made failed.
UpstreamFailed ==
    \/ rFirst.kind \in {"reject", "authFailure"}
    \/ rSecond.kind \in {"reject", "authFailure"}

\* The collection is absent from a body the operation read, or is not an
\* array.
CollectionMissing ==
    \/ rFirst.kind = "ok" /\ rFirst.shape \in {"absent", "notArray"}
    \/ rSecond.kind = "ok" /\ rSecond.shape \in {"absent", "notArray"}

C21_AsStated ==
    (/\ rOp \in WrappingOperations \cup BareOperations
     /\ \/ rFirst.kind \in {"reject", "authFailure"}
        \/ rFirst.kind = "malformed"
              /\ rOp \notin {"deleteCard", "deleteBoard"}) =>
        /\ rResult.state = "threw"
        /\ rResult.message[1] = "Failed to "
        /\ rResult.message[Len(rResult.message)] = rFirst.kind

(***************************************************************************)
(* Properties of getBoardSummary.                                          *)
(***************************************************************************)

\* p is the integer nearest to 100 * numerator / denominator, and 0 when
\* the denominator is 0.
IsPercentageOf(p, numerator, denominator) ==
    /\ p \in 0..100
    /\ denominator = 0 => p = 0
    /\ denominator > 0 =>
           /\ 2 * (100 * numerator - p * denominator) <= denominator
           /\ 2 * (p * denominator - 100 * numerator) < denominator

\* The number of cards the upstream holds in the first list named "done"
\* in any case, and in all lists.
UpstreamDoneCards ==
    LET done == {k \in DOMAIN sLists : sLists[k].name \in {"Done", "DONE"}}
    IN  IF done = {} THEN 0
        ELSE sLists[CHOOSE k \in done : \A j \in done : k <= j].cards

RECURSIVE UpstreamCards(_)
UpstreamCards(k) ==
    IF k >= ArrayLength(sLists) THEN 0
    ELSE sLists[k].cards + UpstreamCards(k + 1)

\* C22: getBoardSummary never divides by zero: the board-wide
\* completionPercentage is 0 when the board has no cards, the per-card
\* completionPercentage is 0 when the card has no tasks, and otherwise each
\* is the ratio times 100 rounded to the nearest integer, always an integer
\* between 0 and 100.
C22_CompletionPercentages ==
    sResult.state = "returned" =>
        /\ IsPercentageOf(sResult.value.stats.completionPercentage,
                          UpstreamDoneCards, UpstreamCards(0))
        /\ \A k \in DOMAIN sResult.value.lists :
               \A c \in DOMAIN sResult.value.lists[k].cards :
                   LET tasks == sResult.value.lists[k].cards[c].tasks
                       upstream == sLists[k].tasks
                   IN  tasks.defined =>
                           IsPercentageOf(tasks.completionPercentage,
                               Cardinality({t \in DOMAIN upstream :
                                                upstream[t].isCompleted}),
                               ArrayLength(upstream))

\* A summary of a board with an empty list beside a list of cards, one
\* card without tasks, and a summary whose percentages are rounded up.
C22_Witness ==
    /\ sResult.state = "returned"
    /\ sInclude
    /\ ArrayLength(sLists) = 2
    /\ sLists[0].cards = 0
    /\ sLists[1].cards = 2
    /\ sLists[1].tasks = TaskDetails(3, 2)
    /\ sResult.value.lists[1].cards[0].tasks.completionPercentage = 67

\* A summary of a board without cards reports 0.
C22_WitnessNoCards ==
    /\ sResult.state = "returned"
    /\ ArrayLength(sLists) = 1
    /\ sLists[0].cards = 0
    /\ sResult.value.stats.completionPercentage = 0

(***************************************************************************)
(* Properties of createLabel.                                              *)
(***************************************************************************)

\* C23: createLabel called with a color outside VALID_LABEL_COLORS fails
\* with a validation error before any network call is attempted.
C23_AsStated ==
    (lPc = "done" /\ lOptions.color \notin VALID_LABEL_COLORS) =>
        /\ lCalls = EmptyArray
        /\ lResult.state = "threw"

(***************************************************************************)
(* Properties of the lookups by scan.                                      *)
(***************************************************************************)

\* The boards and cards whose answer holds an item with the wanted id.
BoardsHoldingTask ==
    {k \in DOMAIN scBoards :
        /\ scBoards[k].answer = "ok"
        /\ FindTask(scBoards[k].tasks, scId) # -1}

BoardsHoldingComment ==
    {k \in DOMAIN scBoards :
        /\ scBoards[k].answer = "ok"
        /\ \E c \in DOMAIN scBoards[k].cards :
               /\ scBoards[k].cards[c].answer = "ok"
               /\ FindComment(scBoards[k].cards[c].items, scId) # -1}

ItemExists ==
    /\ scProjects = "ok"
    /\ IF scOp = "getTask" THEN BoardsHoldingTask # {}
       ELSE BoardsHoldingComment # {}

ThrewNotFound ==
    /\ scResult.state = "threw"
    /\ scResult.message = <<ScanFailedTo(scOp), ScanNotFound(scOp), scId>>

\* Every board of the listing that has an id was requested and, for
\* getComment, every card of every board that answered.
ScanExhausted ==
    \A k \in DOMAIN scBoards :
        scBoards[k].answer # "noId" =>
            /\ <<"boards", k>> \in scFetched
            /\ scOp = "getComment" =>
                   \A c \in DOMAIN scBoards[k].cards :
                       <<"cards", k, c>> \in scFetched

\* A request of the scan threw.
ScanRequestFailed ==
    \/ scProjects = "reject"
    \/ \E k \in DOMAIN scBoards :
           \/ <<"boards", k>> \in scFetched /\ scBoards[k].answer = "reject"
           \/ \E c \in DOMAIN scBoards[k].cards :
                  /\ <<"cards", k, c>> \in scFetched
                  /\ scBoards[k].cards[c].answer = "reject"

\* C24 as stated: the not-found error is raised only after the scan is
\* exhausted, and if the requested id exists in any board (any card)
\* reachable from the projects listing, the item is returned.
C24_AsStated ==
    scPc = "done" =>
        /\ ThrewNotFound => ScanExhausted /\ ~ItemExists
        /\ ItemExists =>
               /\ scResult.state = "returned"
               /\ scResult.value.id = scId

\* C24, amended: the not-found error is raised only after every board
\* (and card) has been requested without a match; an item that exists is
\* returned unless a request of the scan threw before the item was
\* reached, which ends the scan with that request's error.
C24_NotFoundOnlyAfterScan ==
    scPc = "done" =>
        /\ ThrewNotFound => ScanExhausted /\ ~ItemExists
        /\ ItemExists =>
               \/ /\ scResult.state = "returned"
                  /\ scResult.value.id = scId
               \/ /\ scResult.state = "threw"
                  /\ ~ThrewNotFound
                  /\ ScanRequestFailed

\* A scan that passed a board without a match and found the item in the
\* second board, and a scan that examined two boards and found nothing.
C24_Witness ==
    /\ scPc = "done"
    /\ ArrayLength(scBoards) = 2
    /\ scFetched = {<<"boards", 0>>, <<"boards", 1>>}
    /\ scResult.state = "returned"
    /\ scOp = "getTask"

C24_WitnessNotFound ==
    /\ scPc = "done"
    /\ scOp = "getComment"
    /\ ArrayLength(scBoards) = 2
    /\ ArrayLength(scBoards[1].cards) = 2
    /\ <<"cards", 1, 1>> \in scFetched
    /\ ThrewNotFound

(***************************************************************************)
(* Properties of the consolidated tool handlers.                           *)
(***************************************************************************)

\* The arguments the selected action requires, as its message names them.
RequiredArguments ==
    {tCase.checks[k][1] : k \in DOMAIN tCase.checks}

NamedInMessage(name) ==
    \E i \in DOMAIN tResult.message :
        tResult.message[i] =
            IF name = "cardIdForOps" THEN "id (or cardId)" ELSE name

\* C25: in each consolidated tool handler, when an argument required by
\* the selected action is missing, the handler throws an error naming the
\* required arguments and invokes no resource operation.
C25_MissingArgumentThrows ==
    (/\ tPc = "done"
     /\ \E name \in RequiredArguments :
            ArgumentOf(tArgs, name) = "undefined") =>
        /\ tResult.state = "threw"
        /\ \A name \in RequiredArguments : NamedInMessage(name)
        /\ tInvoked = EmptyArray

\* The card manager's move action called with a card id and no listId.
C25_Witness ==
    /\ tPc = "done"
    /\ tCase.tool = "mcp_kanban_card_manager"
    /\ tCase.action = "move"
    /\ tArgs["cardId"] = "value"
    /\ tArgs["id"] = "undefined"
    /\ tArgs["listId"] = "undefined"
    /\ tResult.state = "threw"

\* No stopwatch runs on the card as the upstream stores it.
NotRunning(stopwatch) == stopwatch.isNull \/ stopwatch.startedAt.isNull

\* C26: stopCardStopwatch on a card whose stopwatch is absent or not
\* running issues no PATCH and returns the card unchanged, so a stop that
\* follows a stop leaves the stored stopwatch as the first stop left it.
C26_StopIsIdempotent ==
    [][ /\ (swOp = "stop" /\ NotRunning(swStored)) =>
              /\ swPc' # "patch"
              /\ swStored' = swStored
              /\ (swPc = "getCard" /\ swResult'.state = "returned") =>
                     swResult'.stopwatch = swStored
        /\ (swOp = "stop" /\ PreviousReturned("stop")) =>
              /\ NotRunning(swStored)
              /\ swStored' = swStored
      ]_vars

\* A stop that followed a stop of a running stopwatch has returned the
\* card with the total of the first stop.
C26_Witness ==
    /\ swOp = "stop"
    /\ swPc = "done"
    /\ PreviousReturned("stop")
    /\ swResult.state = "returned"
    /\ ~swStored.isNull
    /\ swStored.total > 0
    /\ swResult.stopwatch = swStored

\* C27: startCardStopwatch on a stopwatch that is already running sends
\* startedAt = now and the total unchanged, and the stop that follows adds
\* floor((now - startedAt)/1000) for the startedAt of the last start: the
\* time between the two starts is not added to the total.
C27_RestartDropsElapsed ==
    [][ /\ (/\ swOp = "start" /\ swPc = "getCard" /\ swPc' = "patch"
            /\ ~NotRunning(swStored)) =>
              /\ swBody'.startedAt = toISOString(swNow)
              /\ swBody'.total = swStored.total
        /\ (swOp = "start" /\ swPc = "patch" /\ swStored' # swStored) =>
              /\ swStored'.startedAt = swBody.startedAt
              /\ swStored'.total = TotalOf(swStored)
        /\ (swOp = "stop" /\ swPc = "getCard" /\ swPc' = "patch") =>
              swBody'.total - swStored.total
                  = (swNow - getTime(swStored.startedAt)) \div 1000
        /\ (swOp = "stop" /\ swPc = "patch" /\ swStored' # swStored) =>
              swStored'.total = swBody.total
      ]_vars

\* A start has read a stopwatch that had been running for more than a
\* second and sends it started now with the total it read.
C27_Witness ==
    /\ swOp = "start"
    /\ swPc = "patch"
    /\ ~NotRunning(swCard)
    /\ swNow - getTime(swCard.startedAt) >= 1000
    /\ swBody.startedAt = toISOString(swNow)
    /\ swBody.total = swCard.total
    /\ swCard.total > 0

\* The indices of the calls of one kind in createBoard's log.
CallsOfKind(kind) == {k \in DOMAIN cbCalls : cbCalls[k].call = kind}

\* The calls of `indices` are made one after the other, carry the names of
\* `defaults` in order, and none follows a failed one.
PrefixStoppedAtFailure(indices, defaults) ==
    \A k \in indices :
        LET rank == Cardinality({j \in indices : j < k})
        IN  /\ rank < ArrayLength(defaults)
            /\ cbCalls[k].name = defaults[rank].name
            /\ cbCalls[k].outcome # "ok" => \A j \in indices : j <= k

\* C28: in createBoard the creation of the default lists stops at the
\* first list whose creation fails, so the lists attempted are a prefix of
\* the six; the creation of the default labels is attempted afterwards all
\* the same, and stops at the first label whose creation fails.
C28_DefaultsStopAtFirstFailure ==
    LET listCalls == CallsOfKind("createList")
        labelCalls == CallsOfKind("createLabel")
    IN  /\ PrefixStoppedAtFailure(listCalls,
               [k \in DOMAIN SixListNames |-> [name |-> SixListNames[k]]])
        /\ PrefixStoppedAtFailure(labelCalls, defaultLabels)
        /\ \A i \in labelCalls, j \in listCalls : j < i
        /\ cbPc = "labels" =>
              \/ Cardinality(listCalls) = 6
              \/ CallFailed("createList")
        /\ (cbPc = "return" \/ cbReturn.state = "returned") =>
              /\ listCalls # {}
              /\ labelCalls # {}
              /\ \/ Cardinality(labelCalls) = ArrayLength(defaultLabels)
                 \/ CallFailed("createLabel")

\* The third list failed, the labels were attempted, and the second label
\* failed: three lists and two labels were attempted in all.
C28_Witness ==
    /\ cbPc = "done"
    /\ cbReturn.state = "returned"
    /\ Cardinality(CallsOfKind("createList")) = 3
    /\ CallFailed("createList")
    /\ Cardinality(CallsOfKind("createLabel")) = 2
    /\ CallFailed("createLabel")

C30_ResultsByIndex ==
    (bVariant = "parallel" /\ bReturn.state = "returned") =>
        LET N == ArrayLength(bTasks)
            results == bReturn.results
            summary == bReturn.summary
        IN  /\ DOMAIN results = 0..(N - 1)
            /\ \A k \in DOMAIN results :
                  /\ results[k].success <=> bOutcome[k] = "ok"
                  /\ results[k].success =>
                         results[k].result.name = bTasks[k].name
            /\ summary.total = N
            /\ summary.succeeded + summary.failed = N
            /\ summary.failed = Cardinality(FailingIndices)
            /\ IF FailingIndices = {}
               THEN summary.errors = UNDEFINED
               ELSE /\ ArrayLength(summary.errors) = summary.failed
                    /\ \A k \in FailingIndices :
                          \E e \in DOMAIN summary.errors :
                              /\ summary.errors[e].index = k
                              /\ summary.errors[e].task = bTasks[k]

\* Three different creations completed out of order: the last task failed
\* first, and the first task failed after it.
C30_Witness ==
    /\ bVariant = "parallel"
    /\ bReturn.state = "returned"
    /\ ArrayLength(bTasks) = 3
    /\ bTasks[0].name # bTasks[1].name
    /\ FailingIndices = {0, 2}
    /\ bReturn.summary.errors[0].index = 2
    /\ bReturn.summary.errors[1].index = 0
    /\ bReturn.results[1].success

====
